---------------------------- MODULE Spec2Model ----------------------------
(***************************************************************************)
(* A model of Open Spaces (skryabiin/open-spaces): the SSH configuration   *)
(* merger (sshConfigManager.ts), the poll-waits of the lifecycle           *)
(* orchestrator (ghCli.ts waitForState, codespaceManager.ts                *)
(* ensureCodespaceAvailable) and the synchronization engine                *)
(* (ui/codespaceTreeProvider.ts, CodespaceTreeProvider).                   *)
(*                                                                         *)
(* Three specifications share the module's variables; each leaves the      *)
(* variables of the other two components at their initial values:          *)
(*   SpecSsh    the configuration file under setEntry / clearEntries       *)
(*   SpecWait   one run of ensureCodespaceAvailable                        *)
(*   SpecSync   the engine under refresh, setVisible, timer ticks and the  *)
(*              completions of the reloads' tool invocations               *)
(***************************************************************************)
EXTENDS Integers, Sequences, FiniteSets, TLC

VARIABLES
  \* ---- sshConfigManager.ts: the file ~/.ssh/config and a log of the last call
  file,          \* content of the configuration file, a sequence of tokens
  prevFile,      \* its content before the last setEntry / clearEntries
  lastOp,        \* the last call: [kind, entry, threw]
  nOps,          \* number of calls made (bounded by MaxOps)
  managedHost,   \* the last getManagedHost call: what it read and returned
  \* ---- ensureCodespaceAvailable / waitForStateChange / waitForState
  pc,            \* the await at which the one orchestrator run stands
  fresh,         \* freshCodespace: what the first getCodespace returned
  elapsed,       \* Date.now() - startTime of the wait loop that is running (ms)
  seen,          \* the last MaxSeen results of getCodespace, oldest first
  observer,      \* the function that made the last getCodespace call
  outcome,       \* how the run ended
  commands,      \* remote commands issued, in order
  refreshes,     \* number of triggerRefresh() calls
  call,          \* start / stop: the operation called and the state of its argument
  token,         \* waitForState: the cancellation token of a direct call
  \* ---- CodespaceTreeProvider
  codespaces,    \* this.codespaces: name -> object, or NoCs for a name not in it
  loading, error, ghInstalled, authenticated, hasCodespaceScope,
  isPolling,
  pollTimer,                \* TRUE iff this.pollTimer is non-null
  backgroundRefreshTimer,   \* TRUE iff this.backgroundRefreshTimer is non-null
  isVisible,
  livePoll,      \* number of live fast-poll intervals (setInterval not cleared)
  liveBackground,\* number of live background intervals
  reloads,       \* the loadCodespacesInternal activations, one record per slot
  \* ---- parseSshConfigOutput / formatSshConfigEntry as functions
  psIn,          \* configOutput of the last parseSshConfigOutput call
  psOut,         \* the entries it returned
  rt,            \* the last format-and-parse-again of one of them
  \* ---- ConnectionHealthMonitor
  timer,                \* TRUE iff this.timer is non-null
  consecutiveFailures,
  liveIntervals, \* number of live probe intervals (setInterval not cleared)
  probes,        \* number of check() activations awaiting runGh
  prompts,       \* number of lost-connection prompts awaiting the user
  monitorStarted,\* the extension has called start()
  disposed,      \* dispose() has been called
  awaitingUser,  \* the threshold was reached and Reconnect not selected since
  hmEvent,       \* the last step of the monitor
  \* ---- findStaleCodespaces as a function
  staleCall,     \* the last call: [after, codespaces, done, now, result, thresholdDays]
  \* ---- CodespaceTreeProvider.getChildren() at the root, as a function
  viewCall,      \* the last call: the cache before and after it, the filters,
                 \* connectedCodespaceName set or not, and the result
  \* ---- connect (codespaceManager.ts), after ensureCodespaceAvailable
  conn,          \* the run of connect
  \* ---- the remote side, as the reloads of the engine see it
  remote,        \* what listCodespaces returns now: name -> state, or not listed
  frozen,        \* the remote workspace set has stopped changing
  \* ---- the Directory Client (ghCli.ts) as functions
  client,        \* the last call of an operation: its inputs and how it ended
  \* ---- CodespaceTreeProvider.dispose
  providerDisposed  \* dispose() has been called on the provider

sshVars  == <<file, prevFile, lastOp, nOps, managedHost>>
waitVars == <<pc, fresh, elapsed, seen, observer, outcome, commands, refreshes, call>>
syncVars == <<codespaces, loading, error, ghInstalled, authenticated,
              hasCodespaceScope, isPolling, pollTimer, backgroundRefreshTimer,
              isVisible, livePoll, liveBackground, reloads>>
parseVars == <<psIn, psOut, rt>>
healthVars == <<timer, consecutiveFailures, liveIntervals, probes, prompts,
                monitorStarted, disposed, awaitingUser, hmEvent>>
staleVars == <<staleCall>>
viewVars == <<viewCall>>
connVars == <<conn>>
tokenVars == <<token>>
remoteVars == <<remote, frozen>>
clientVars == <<client>>
disposeVars == <<providerDisposed>>
vars     == <<sshVars, waitVars, syncVars, parseVars, healthVars, staleVars,
             viewVars, connVars, tokenVars, remoteVars, clientVars, disposeVars>>

\* What the actions of one component leave alone: the other components' state.
nonSshVars  == <<waitVars, syncVars, parseVars, healthVars, staleVars,
                  viewVars, connVars, tokenVars, remoteVars, clientVars, disposeVars>>
nonWaitVars == <<sshVars, syncVars, parseVars, healthVars, staleVars,
                  viewVars, connVars, tokenVars, remoteVars, clientVars, disposeVars>>
nonSyncVars == <<sshVars, waitVars, parseVars, healthVars, staleVars,
                  viewVars, connVars, tokenVars, remoteVars, clientVars, disposeVars>>
nonParseVars == <<sshVars, waitVars, syncVars, healthVars, staleVars,
                  viewVars, connVars, tokenVars, remoteVars, clientVars, disposeVars>>
nonHealthVars == <<sshVars, waitVars, syncVars, parseVars, staleVars,
                  viewVars, connVars, tokenVars, remoteVars, clientVars, disposeVars>>
nonStaleVars == <<sshVars, waitVars, syncVars, parseVars, healthVars,
                  viewVars, connVars, tokenVars, remoteVars, clientVars, disposeVars>>
nonViewVars == <<sshVars, waitVars, syncVars, parseVars, healthVars,
                 staleVars, connVars, tokenVars, remoteVars, clientVars, disposeVars>>
\* connect acts on the file and on the run of ensureCodespaceAvailable too.
nonConnVars == <<syncVars, parseVars, healthVars, staleVars, viewVars, tokenVars,
                 remoteVars, clientVars, disposeVars>>
\* A direct call of waitForState acts on the run and on its token.
nonTokenVars == <<sshVars, syncVars, parseVars, healthVars, staleVars, viewVars,
                  connVars, remoteVars, clientVars, disposeVars>>
\* The remote side changes by itself.
nonRemoteVars == <<sshVars, waitVars, syncVars, parseVars, healthVars, staleVars,
                   viewVars, connVars, tokenVars, clientVars, disposeVars>>
\* A call of the Directory Client acts on nothing else.
nonClientVars == <<sshVars, waitVars, syncVars, parseVars, healthVars, staleVars,
                   viewVars, connVars, tokenVars, remoteVars, disposeVars>>
\* dispose() of the provider acts on the engine and on nothing else.
nonProviderVars == <<sshVars, waitVars, parseVars, healthVars, staleVars,
                     viewVars, connVars, tokenVars, remoteVars, clientVars>>

(***************************************************************************)
(* Bounds of the model.                                                    *)
(***************************************************************************)
MaxFileLen == 4      \* tokens in the initial configuration file
MaxOps == 3          \* setEntry / clearEntries calls in one behaviour
MaxCodespaces == 2   \* workspace names the remote side may list
MaxReloads == 2      \* loadCodespacesInternal activations in flight at once
MaxSeen == 3         \* observations of getCodespace remembered
MaxLines == 3        \* lines of the text parseSshConfigOutput is called with
MaxProbes == 2       \* probes of the health monitor in flight at once
MaxPrompts == 2      \* lost-connection prompts (and probe intervals) at once
MaxCount == 5        \* cap of the monitor's failure counter
MaxStale == 2        \* workspaces findStaleCodespaces is called with
MaxDays == 2         \* thresholdDays, and days before now of a lastUsedAt
MaxView == 3         \* workspaces in the cache that getChildren reads
MaxAttempts == 2     \* openSpaces.sshProbeRetries

Max(S) == CHOOSE x \in S : \A y \in S : y <= x
Min(S) == CHOOSE x \in S : \A y \in S : x <= y


(***************************************************************************)
(* SSH configuration merger (sshConfigManager.ts).                         *)
(*                                                                         *)
(* Text is a sequence of tokens.  A token is one character ("x", "a", "b"  *)
(* ordinary characters, " " a space, "\n" "\r" "\t" "\f" themselves) or    *)
(* one fixed piece of text the program writes or searches for as a whole:  *)
(* the two sentinels, the two comment lines under the start sentinel and   *)
(* the keywords of formatSshConfigEntry.                                   *)
(***************************************************************************)
MARKER_START == "# >>> Open Spaces"
MARKER_END == "# <<< Open Spaces"
COMMENT_MANAGED == "# This section is managed by Open Spaces extension"
COMMENT_NO_EDIT == "# Do not edit manually - changes will be overwritten"

\* The character class [\n\r\x00-\x1f] of validateSshConfigValue, over the
\* characters of the model ("\t" and "\f" stand for the range \x00-\x1f).
IsControlCharNoCr(c) == c \in {"\n", "\t", "\f"}
IsControlChar(c) == c \in {"\n", "\r", "\t", "\f"}

\* validateSshConfigValue: TRUE when the value is returned, FALSE when it throws.
ValidateSshConfigValue(value) == \A i \in 1..Len(value) : ~IsControlChar(value[i])

\* What String.prototype.trim / trimStart / trimEnd strip, over the model's characters.
IsWhiteSpace(c) == c \in {" ", "\n", "\r", "\t", "\f"}

TrimEnd(s) ==
  LET keep == {i \in 1..Len(s) : ~IsWhiteSpace(s[i])}
  IN  IF keep = {} THEN <<>> ELSE SubSeq(s, 1, Max(keep))

TrimStart(s) ==
  LET keep == {i \in 1..Len(s) : ~IsWhiteSpace(s[i])}
  IN  IF keep = {} THEN <<>> ELSE SubSeq(s, Min(keep), Len(s))

Trim(s) == TrimStart(TrimEnd(s))

\* String.prototype.indexOf for a one-token needle, 1-based: 0 is JavaScript's -1.
IndexOf(s, t) ==
  LET at == {i \in 1..Len(s) : s[i] = t}
  IN  IF at = {} THEN 0 ELSE Min(at)

\* Array.prototype.join.
RECURSIVE Join(_, _)
Join(parts, sep) ==
  IF parts = <<>> THEN <<>>
  ELSE IF Len(parts) = 1 THEN parts[1]
  ELSE parts[1] \o sep \o Join(Tail(parts), sep)

\* The optional fields of SshConfigEntry in the order formatSshConfigEntry
\* writes them, each with its keyword.
OptionalFields ==
  << <<"hostName", "HostName">>, <<"user", "User">>,
     <<"proxyCommand", "ProxyCommand">>, <<"identityFile", "IdentityFile">>,
     <<"strictHostKeyChecking", "StrictHostKeyChecking">>,
     <<"userKnownHostsFile", "UserKnownHostsFile">>, <<"logLevel", "LogLevel">>,
     <<"controlMaster", "ControlMaster">>, <<"controlPath", "ControlPath">>,
     <<"controlPersist", "ControlPersist">> >>

\* An entry with only its host set: an unset (or empty) field is <<>>.
EntryOf(h) ==
  [host |-> h, hostName |-> <<>>, user |-> <<>>, proxyCommand |-> <<>>,
   identityFile |-> <<>>, strictHostKeyChecking |-> <<>>,
   userKnownHostsFile |-> <<>>, logLevel |-> <<>>, controlMaster |-> <<>>,
   controlPath |-> <<>>, controlPersist |-> <<>>]

\* The fields formatSshConfigEntry passes to validateSshConfigValue: the host
\* always, the others when truthy.
PopulatedFields(entry) ==
  {"host"} \cup {OptionalFields[i][1] : i \in {j \in 1..Len(OptionalFields) :
                                                 entry[OptionalFields[j][1]] # <<>>}}

\* formatSshConfigEntry throws iff one validated value is rejected.
FormatThrows(entry) ==
  \E f \in PopulatedFields(entry) : ~ValidateSshConfigValue(entry[f])

\* The text formatSshConfigEntry returns when it does not throw.
FormatSshConfigEntry(entry) ==
  LET line(i) == <<" ", " ", OptionalFields[i][2], " ">> \o entry[OptionalFields[i][1]]
      RECURSIVE rest(_)
      rest(i) ==
        IF i > Len(OptionalFields) THEN <<>>
        ELSE IF entry[OptionalFields[i][1]] # <<>> THEN <<line(i)>> \o rest(i + 1)
        ELSE rest(i + 1)
  IN  Join(<< <<"Host", " ">> \o entry.host >> \o rest(1), <<"\n">>)

\* updateManagedSection, lines 177-186: the text kept in front of the block.
HasMarkers(existingConfig) ==
  IndexOf(existingConfig, MARKER_START) # 0 /\ IndexOf(existingConfig, MARKER_END) # 0

BeforeSectionKeepAll(existingConfig) == existingConfig
BeforeSection(existingConfig) ==
  IF HasMarkers(existingConfig)
  THEN TrimEnd(SubSeq(existingConfig, 1, IndexOf(existingConfig, MARKER_START) - 1))
  ELSE existingConfig

AfterSection(existingConfig) ==
  IF HasMarkers(existingConfig)
  THEN TrimStart(SubSeq(existingConfig, IndexOf(existingConfig, MARKER_END) + 1,
                        Len(existingConfig)))
  ELSE <<>>

\* updateManagedSection, lines 189-197.
ManagedSection(newEntries) ==
  Join(<< <<MARKER_START>>, <<COMMENT_MANAGED>>, <<COMMENT_NO_EDIT>>, <<>> >>
       \o [i \in 1..Len(newEntries) |-> FormatSshConfigEntry(newEntries[i])]
       \o << <<>>, <<MARKER_END>> >>,
       <<"\n">>)

\* updateManagedSection, lines 200-215: the content written to the file.
UpdateManagedSection(existingConfig, newEntries) ==
  LET beforeSection == BeforeSection(existingConfig)
      afterSection == AfterSection(existingConfig)
      parts == (IF Trim(beforeSection) # <<>> THEN <<beforeSection>> ELSE <<>>)
               \o (IF Len(newEntries) > 0 THEN <<ManagedSection(newEntries)>> ELSE <<>>)
               \o (IF Trim(afterSection) # <<>> THEN <<afterSection>> ELSE <<>>)
  IN  Join(parts, <<"\n", "\n">>) \o <<"\n">>

\* The tokens a configuration file may hold before the first call.
FileTokens == {"x", " ", "\n", MARKER_START, MARKER_END}

RECURSIVE SeqsUpTo(_, _)
SeqsUpTo(S, n) ==
  IF n = 0 THEN {<<>>}
  ELSE LET shorter == SeqsUpTo(S, n - 1)
       IN  shorter \cup {Append(s, t) : s \in {u \in shorter : Len(u) = n - 1}, t \in S}

\* The entries setEntry is called with: well-formed ones, ones with a line
\* feed, a carriage return or another control character in a populated field,
\* and one whose host is two patterns.
Entries ==
  {EntryOf(<<"a">>), [EntryOf(<<"b">>) EXCEPT !.hostName = <<"a", " ", "b">>],
   EntryOf(<<"a", "\n", "b">>),
   [EntryOf(<<"a">>) EXCEPT !.hostName = <<"b", "\r">>],
   [EntryOf(<<"b">>) EXCEPT !.controlPersist = <<"\t">>],
   EntryOf(<<"a", " ", "b">>)}

NoOp == [kind |-> "none", entry |-> EntryOf(<<>>), threw |-> FALSE]

Count(s, t) == Cardinality({i \in 1..Len(s) : s[i] = t})

\* A file in which the sentinels are what updateManagedSection wrote: none, or
\* one start sentinel followed by one end sentinel.  The text around and (in the
\* initial file) inside the block is arbitrary.
WellFormed(f) ==
  \/ Count(f, MARKER_START) = 0 /\ Count(f, MARKER_END) = 0
  \/ /\ Count(f, MARKER_START) = 1
     /\ Count(f, MARKER_END) = 1
     /\ IndexOf(f, MARKER_START) < IndexOf(f, MARKER_END)

\* String.prototype.substring(start, end) with 1-based positions of tokens: the
\* arguments are swapped when start is behind end.
Substring(str, start, end) == SubSeq(str, Min({start, end}), Max({start, end}) - 1)

\* managed.match(/Host\s+(\S+)/): the leftmost Host that is followed by white
\* space and then by something else; match[1] is the run of characters up to
\* the next white space.  No match is [found |-> FALSE].
NoMatch == [found |-> FALSE, host |-> <<>>]
MatchHost(managed) ==
  LET n == Len(managed)
      next(p) == Min({q \in p + 1..n + 1 : q = n + 1 \/ ~IsWhiteSpace(managed[q])})
      starts == {p \in 1..n : /\ managed[p] = "Host"
                              /\ next(p) > p + 1
                              /\ next(p) <= n}
      first == next(Min(starts))
      last == Min({q \in first..n : q = n \/ IsWhiteSpace(managed[q + 1])})
  IN  IF starts = {} THEN NoMatch
      ELSE [found |-> TRUE, host |-> SubSeq(managed, first, last)]

\* getManagedHost() on a file with this content: undefined ([found |-> FALSE])
\* unless both sentinels are found.
GetManagedHost(config) ==
  IF IndexOf(config, MARKER_START) = 0 \/ IndexOf(config, MARKER_END) = 0
  THEN NoMatch
  ELSE MatchHost(Substring(config, IndexOf(config, MARKER_START),
                           IndexOf(config, MARKER_END)))

NoManagedCall == [after |-> NoOp, config |-> <<>>, done |-> FALSE, result |-> NoMatch]

SshInit ==
  /\ file \in {f \in SeqsUpTo(FileTokens, MaxFileLen) : WellFormed(f)}
  /\ prevFile = file
  /\ lastOp = NoOp
  /\ nOps = 0
  /\ managedHost = NoManagedCall

\* Any content of the file: sentinels in any number and order.
SshAnyInit ==
  /\ file \in SeqsUpTo(FileTokens, MaxFileLen)
  /\ prevFile = file
  /\ lastOp = NoOp
  /\ nOps = 0
  /\ managedHost = NoManagedCall

\* setEntry(entry) -> updateManagedSection([entry]): the file is read, the entry
\* formatted (which may throw), and only then is the file written.
SetEntryBody(entry) ==
  /\ nOps < MaxOps
  /\ nOps' = nOps + 1
  /\ prevFile' = file
  /\ managedHost' = managedHost
  /\ IF FormatThrows(entry)
     THEN /\ file' = file
          /\ lastOp' = [kind |-> "setEntry", entry |-> entry, threw |-> TRUE]
     ELSE /\ file' = UpdateManagedSection(file, <<entry>>)
          /\ lastOp' = [kind |-> "setEntry", entry |-> entry, threw |-> FALSE]

SetEntry(entry) == UNCHANGED nonSshVars /\ SetEntryBody(entry)

\* clearEntries() -> updateManagedSection([]).
ClearEntries ==
  /\ UNCHANGED nonSshVars
  /\ nOps < MaxOps
  /\ nOps' = nOps + 1
  /\ prevFile' = file
  /\ file' = UpdateManagedSection(file, <<>>)
  /\ lastOp' = [kind |-> "clearEntries", entry |-> EntryOf(<<>>), threw |-> FALSE]
  /\ managedHost' = managedHost

\* getManagedHost() is called: the file is read and nothing is written.
GetManagedHostCall ==
  /\ UNCHANGED nonSshVars
  /\ managedHost' = [after |-> lastOp, config |-> file, done |-> TRUE,
                     result |-> GetManagedHost(file)]
  /\ UNCHANGED <<file, prevFile, lastOp, nOps>>


(***************************************************************************)
(* SSH configuration parser (sshConfigManager.ts, parseSshConfigOutput).   *)
(* A keyword is one token; "host" and "hostname" are the keywords Host and *)
(* HostName in another case; "#" is the comment character.                 *)
(***************************************************************************)
\* String.prototype.split for a one-token separator.
RECURSIVE Split(_, _)
Split(s, sep) ==
  IF IndexOf(s, sep) = 0 THEN <<s>>
  ELSE <<SubSeq(s, 1, IndexOf(s, sep) - 1)>>
       \o Split(SubSeq(s, IndexOf(s, sep) + 1, Len(s)), sep)

\* trimmed.startsWith('#'), for a first token t.
StartsWithHash(t) ==
  t \in {"#", MARKER_START, MARKER_END, COMMENT_MANAGED, COMMENT_NO_EDIT}

\* What "." of the pattern does not match: the line terminators.
IsLineTerminator(c) == c \in {"\n", "\r"}

\* trimmed.match(/^(\S+)\s+(.+)$/): the key is the run of characters up to the
\* first white space, the value what follows the white space behind it, which
\* must reach the end of the line without a line terminator.
MatchLine(trimmed) ==
  LET ws == {i \in 1..Len(trimmed) : IsWhiteSpace(trimmed[i])}
      key == SubSeq(trimmed, 1, Min(ws) - 1)
      value == TrimStart(SubSeq(trimmed, Min(ws), Len(trimmed)))
  IN  IF ws = {} \/ Min(ws) = 1
      THEN [matched |-> FALSE, key |-> <<>>, value |-> <<>>]
      ELSE IF \E i \in 1..Len(value) : IsLineTerminator(value[i])
      THEN [matched |-> FALSE, key |-> <<>>, value |-> <<>>]
      ELSE [matched |-> TRUE, key |-> key, value |-> value]

\* The cases of `switch (keyLower)`: the field a keyword assigns, "none" for a
\* key that is ignored.
KeywordField(key) ==
  IF \E i \in 1..Len(OptionalFields) : key = <<OptionalFields[i][2]>>
  THEN OptionalFields[CHOOSE i \in 1..Len(OptionalFields) :
                        key = <<OptionalFields[i][2]>>][1]
  ELSE "none"

\* key.toLowerCase() and the branch it selects: "host" for a new entry, else the
\* field of the current entry that is assigned.
FieldOfKeyCaseSensitive(key) ==
  IF key = <<"Host">> THEN "host" ELSE KeywordField(key)
FieldOfKey(key) ==
  IF key \in {<<"Host">>, <<"host">>} THEN "host"
  ELSE IF key = <<"hostname">> THEN "hostName"
  ELSE KeywordField(key)

\* currentEntry = null.
NoEntry == EntryOf(<<>>)

\* The loop of parseSshConfigOutput over the lines, with the entries pushed so
\* far and currentEntry, and the push after the loop.
RECURSIVE ParseLines(_, _, _)
ParseLines(lines, entries, currentEntry) ==
  LET pushed == IF currentEntry.host # <<>> THEN Append(entries, currentEntry)
                ELSE entries
  IN  IF lines = <<>> THEN pushed
      ELSE LET trimmed == Trim(lines[1])
               m == MatchLine(trimmed)
           IN  IF trimmed = <<>> \/ StartsWithHash(trimmed[1]) \/ ~m.matched
               THEN ParseLines(Tail(lines), entries, currentEntry)
               ELSE IF FieldOfKey(m.key) = "host"
               THEN ParseLines(Tail(lines), pushed, EntryOf(m.value))
               ELSE IF currentEntry # NoEntry /\ FieldOfKey(m.key) # "none"
               THEN ParseLines(Tail(lines), entries,
                               [currentEntry EXCEPT ![FieldOfKey(m.key)] = m.value])
               ELSE ParseLines(Tail(lines), entries, currentEntry)

ParseSshConfigOutput(configOutput) ==
  ParseLines(Split(configOutput, "\n"), <<>>, NoEntry)


\* The lines parseSshConfigOutput is called with: a key, white space and a
\* value, indented or not; and a comment, a blank line, a key without value, a
\* tab as separator, and a carriage return at the end of and inside a value.
ParseKeys == {"Host", "host", "HostName", "x"}
ParseValues == {<<"a">>, <<"b">>, <<"a", "\t", "b">>}
ConfigLines ==
  {indent \o <<k, " ">> \o v :
     indent \in {<<>>, <<" ", " ">>}, k \in ParseKeys, v \in ParseValues}
  \cup {<<"#", "Host", " ", "a">>, <<" ">>, <<"Host">>, <<"Host", "\t", "a">>,
        <<"HostName", " ", "b", "\r">>, <<"Host", " ", "a", "\r", "b">>}

RECURSIVE TextsOf(_)
TextsOf(n) ==
  IF n = 0 THEN {<<>>}
  ELSE IF n = 1 THEN ConfigLines
  ELSE {t \o <<"\n">> \o l : t \in TextsOf(n - 1), l \in ConfigLines}

ConfigOutputs == UNION {TextsOf(n) : n \in 0..MaxLines}

NoRoundTrip == [done |-> FALSE, entry |-> NoEntry, threw |-> FALSE, out |-> <<>>]

ParseInit ==
  /\ psIn = <<>>
  /\ psOut = <<>>
  /\ rt = NoRoundTrip

\* parseSshConfigOutput(configOutput), called once with a text.
ParseCall(configOutput) ==
  /\ UNCHANGED nonParseVars
  /\ psIn' = configOutput
  /\ psOut' = ParseSshConfigOutput(configOutput)
  /\ rt' = NoRoundTrip

\* parseSshConfigOutput(formatSshConfigEntry(e)) for the i-th entry e returned.
FormatAndParse(i) ==
  /\ UNCHANGED nonParseVars
  /\ i \in 1..Len(psOut)
  /\ ~rt.done
  /\ rt' = [done |-> TRUE, entry |-> psOut[i], threw |-> FormatThrows(psOut[i]),
            out |-> IF FormatThrows(psOut[i]) THEN <<>>
                    ELSE ParseSshConfigOutput(FormatSshConfigEntry(psOut[i]))]
  /\ UNCHANGED <<psIn, psOut>>


(***************************************************************************)
(* Lifecycle orchestrator: ensureCodespaceAvailable (codespaceManager.ts)  *)
(* with waitForStateChange (codespaceManager.ts) and waitForState          *)
(* (ghCli.ts).  The run stands at one of its awaits; the time a tool       *)
(* invocation takes and what it returns are chosen by the environment.     *)
(***************************************************************************)
TimeoutMs == 300000          \* waitForState: timeoutMs
PollIntervalMs == 3000       \* waitForState: pollIntervalMs
MaxWaitMs == 10000           \* waitForStateChange: maxWaitMs
ChangePollIntervalMs == 500  \* waitForStateChange: pollIntervalMs

\* CodespaceState (types.ts).
CodespaceStates ==
  {"Available", "Shutdown", "Starting", "ShuttingDown", "Provisioning",
   "Rebuilding", "Awaiting", "Unavailable", "Deleted", "Moved", "Exporting",
   "Updating", "Failed"}

\* isTransitionalState (constants.ts).
IsTransitionalState(state) ==
  state \in {"Starting", "ShuttingDown", "Provisioning", "Rebuilding",
             "Exporting", "Updating"}

\* What one getCodespace call of the run may return: a workspace in one of these
\* states, or null (NotFound); or it throws.
ObservedStates == {"Available", "Shutdown", "Starting", "Failed"}
NotFound == "null"
GetCodespaceResults == ObservedStates \cup {NotFound}
\* How long one getCodespace call may take (ms).
GetCodespaceMs == {0, 3000}

Remember(s, r) ==
  IF Len(s) < MaxSeen THEN Append(s, r) ELSE Append(Tail(s), r)

\* The states of the workspace start and stop are called with.
CallStates == {"Available", "Shutdown", "Starting", "ShuttingDown", "Failed"}
\* The answers of a modal prompt with one button: the button's label, or
\* undefined when the prompt is dismissed.
Undefined == "undefined"
NoCall == [confirmed |-> "none", full |-> FALSE, op |-> "none", state |-> "none"]

\* The targetState of the run's waitForState, and the originalState of its
\* waitForStateChange: stop waits for Shutdown and away from Available, start
\* and ensureCodespaceAvailable for Available and away from Shutdown.
TargetState ==
  IF call.op = "stop" THEN "Shutdown"
  ELSE IF call.op = "waitForState" THEN call.state
  ELSE "Available"
OriginalState ==
  IF call.op = "stop" THEN "Available"
  ELSE IF call.op = "rebuild" THEN call.state
  ELSE "Shutdown"

\* token?: vscode.CancellationToken of waitForState: given or not, its
\* isCancellationRequested, and the await of the loop at which the request came.
NoToken == [at |-> "none", given |-> FALSE, isCancellationRequested |-> FALSE]

WaitInit ==
  /\ pc = "idle"
  /\ fresh = "none"
  /\ elapsed = 0
  /\ seen = <<>>
  /\ observer = "none"
  /\ outcome = "none"
  /\ commands = <<>>
  /\ refreshes = 0
  /\ call = NoCall
  /\ token = NoToken

Finish(o) == pc' = "done" /\ outcome' = o

\* connect() -> ensureCodespaceAvailable(codespace): the re-fetch is issued.
EnsureCall ==
  /\ UNCHANGED <<nonWaitVars, call>>
  /\ pc = "idle"
  /\ pc' = "ensure_fetch"
  /\ UNCHANGED <<fresh, elapsed, seen, observer, outcome, commands, refreshes>>

\* waitForState(name, 'Available') is entered: startTime = Date.now(), the loop
\* guard holds (0 < timeoutMs), no token is passed, getCodespace is called.
EnterWaitForState ==
  /\ pc' = "wait_fetch"
  /\ elapsed' = 0
  /\ outcome' = outcome

\* Line 1102: the start command is issued for a workspace in this state.
NeedsStartUnlessAvailable(state) == state # "Available"
NeedsStart(state) == state = "Shutdown"

\* Lines 1082-1111: the re-fetch returned r.
EnsureFetched(r) ==
  /\ UNCHANGED <<nonWaitVars, call>>
  /\ pc = "ensure_fetch"
  /\ fresh' = r
  /\ seen' = Remember(seen, r)
  /\ observer' = "ensureCodespaceAvailable"
  /\ refreshes' = refreshes
  /\ IF r = NotFound THEN Finish("not_found") /\ UNCHANGED <<elapsed, commands>>
     ELSE IF r = "Failed" THEN Finish("failed_state") /\ UNCHANGED <<elapsed, commands>>
     ELSE IF r = "Available" THEN Finish("ok") /\ UNCHANGED <<elapsed, commands>>
     ELSE IF NeedsStart(r)
          THEN /\ commands' = Append(commands, "start")
               /\ pc' = "start_cmd"
               /\ UNCHANGED <<elapsed, outcome>>
     ELSE EnterWaitForState /\ commands' = commands

\* A tool invocation of the run throws (runGh fails): the error propagates.
ToolThrows ==
  /\ UNCHANGED <<nonWaitVars, call>>
  /\ pc \in {"ensure_fetch", "start_cmd", "stop_cmd", "rebuild_cmd", "delete_cmd",
            "change_fetch", "wait_fetch"}
  /\ Finish("tool_error")
  /\ UNCHANGED <<fresh, elapsed, seen, observer, commands, refreshes>>

\* startCodespace returned: waitForStateChange(name, 'Shutdown') is entered
\* (startTime = Date.now(), 0 < maxWaitMs) and calls getCodespace.
StartReturned ==
  /\ UNCHANGED <<nonWaitVars, call>>
  /\ pc = "start_cmd"
  /\ pc' = "change_fetch"
  /\ elapsed' = 0
  /\ UNCHANGED <<fresh, seen, observer, outcome, commands, refreshes>>

\* start(codespace) with codespace.state = state (lines 1203-1225): a notice and
\* nothing else unless the state is Shutdown; else the start command is issued.
StartCall(state) ==
  /\ UNCHANGED nonWaitVars
  /\ pc = "idle"
  /\ call' = [NoCall EXCEPT !.op = "start", !.state = state]
  /\ UNCHANGED <<fresh, elapsed, seen, observer, refreshes>>
  /\ IF state # "Shutdown"
     THEN Finish("notice") /\ commands' = commands
     ELSE /\ commands' = Append(commands, "start")
          /\ pc' = "start_cmd"
          /\ outcome' = outcome

\* stop(codespace) with codespace.state = state (lines 1231-1253): a notice and
\* nothing else unless the state is Available; else the stop command is issued.
StopCall(state) ==
  /\ UNCHANGED nonWaitVars
  /\ pc = "idle"
  /\ call' = [NoCall EXCEPT !.op = "stop", !.state = state]
  /\ UNCHANGED <<fresh, elapsed, seen, observer, refreshes>>
  /\ IF state # "Available"
     THEN Finish("notice") /\ commands' = commands
     ELSE /\ commands' = Append(commands, "stop")
          /\ pc' = "stop_cmd"
          /\ outcome' = outcome

\* stopCodespace returned: waitForStateChange(name, 'Available') is entered
\* and calls getCodespace.
StopReturned ==
  /\ UNCHANGED <<nonWaitVars, call>>
  /\ pc = "stop_cmd"
  /\ pc' = "change_fetch"
  /\ elapsed' = 0
  /\ UNCHANGED <<fresh, seen, observer, outcome, commands, refreshes>>

\* waitForStateChange ended (break, or its guard failed): triggerRefresh(), then
\* waitForState(name, targetState); rebuild ends there with its notice.
ChangeEndsNoRefresh ==
  IF call.op = "rebuild"
  THEN Finish("ok") /\ UNCHANGED <<refreshes, elapsed>>
  ELSE /\ refreshes' = refreshes
       /\ EnterWaitForState
ChangeEnds ==
  IF call.op = "rebuild"
  THEN Finish("ok") /\ UNCHANGED <<refreshes, elapsed>>
  ELSE /\ refreshes' = refreshes + 1
       /\ EnterWaitForState

\* The label of the one button of the operation's modal prompt.
ConfirmLabel == IF call.op = "rebuild" THEN "Rebuild" ELSE "Delete"

\* rebuild(codespace, full) (lines 1302-1336): whatever codespace.state is, the
\* modal prompt is shown.
RebuildCall(state, full) ==
  /\ UNCHANGED nonWaitVars
  /\ pc = "idle"
  /\ pc' = "confirm"
  /\ call' = [NoCall EXCEPT !.op = "rebuild", !.state = state, !.full = full]
  /\ UNCHANGED <<fresh, elapsed, seen, observer, outcome, commands, refreshes>>

\* deleteCodespace(codespace) (lines 1342-1364): the modal prompt is shown.
DeleteCall(state) ==
  /\ UNCHANGED nonWaitVars
  /\ pc = "idle"
  /\ pc' = "confirm"
  /\ call' = [NoCall EXCEPT !.op = "delete", !.state = state]
  /\ UNCHANGED <<fresh, elapsed, seen, observer, outcome, commands, refreshes>>

\* Lines 1314 and 1349: the operation goes on after this answer.
ConfirmedAlways(answer) == TRUE
Confirmed(answer) == answer = ConfirmLabel

\* The prompt closed with this answer: a return and nothing else unless it is
\* the button's label; else the remote command is issued.
Answered(answer) ==
  /\ UNCHANGED nonWaitVars
  /\ pc = "confirm"
  /\ call' = [call EXCEPT !.confirmed = answer]
  /\ UNCHANGED <<fresh, elapsed, seen, observer, refreshes>>
  /\ IF ~Confirmed(answer)
     THEN Finish("declined") /\ commands' = commands
     ELSE /\ commands' = Append(commands, IF call.op = "rebuild" /\ call.full
                                          THEN "rebuild --full" ELSE call.op)
          /\ pc' = call.op \o "_cmd"
          /\ outcome' = outcome

\* rebuildCodespace returned: waitForStateChange(name, codespace.state) is
\* entered and calls getCodespace.
RebuildReturned ==
  /\ UNCHANGED <<nonWaitVars, call>>
  /\ pc = "rebuild_cmd"
  /\ pc' = "change_fetch"
  /\ elapsed' = 0
  /\ UNCHANGED <<fresh, seen, observer, outcome, commands, refreshes>>

\* ghCli.deleteCodespace returned: the notice is shown.
DeleteReturned ==
  /\ UNCHANGED <<nonWaitVars, call>>
  /\ pc = "delete_cmd"
  /\ Finish("ok")
  /\ UNCHANGED <<fresh, elapsed, seen, observer, commands, refreshes>>

\* waitForStateChange: getCodespace returned r after d ms.
ChangeFetched(r, d) ==
  /\ UNCHANGED <<nonWaitVars, call>>
  /\ pc = "change_fetch"
  /\ seen' = Remember(seen, r)
  /\ observer' = "waitForStateChange"
  /\ UNCHANGED <<fresh, commands>>
  /\ IF r # NotFound /\ r # OriginalState
     THEN ChangeEnds
     ELSE /\ pc' = "change_sleep"
          /\ elapsed' = elapsed + d
          /\ UNCHANGED <<outcome, refreshes>>

\* waitForStateChange: the sleep ended and the loop guard is evaluated.
ChangeSleptUnguarded ==
  /\ UNCHANGED <<nonWaitVars, call>>
  /\ pc = "change_sleep"
  /\ UNCHANGED <<fresh, seen, observer, commands>>
  /\ pc' = "change_fetch"
  /\ elapsed' = elapsed + ChangePollIntervalMs
  /\ UNCHANGED <<outcome, refreshes>>
ChangeSlept ==
  /\ UNCHANGED <<nonWaitVars, call>>
  /\ pc = "change_sleep"
  /\ UNCHANGED <<fresh, seen, observer, commands>>
  /\ IF elapsed + ChangePollIntervalMs < MaxWaitMs
     THEN /\ pc' = "change_fetch"
          /\ elapsed' = elapsed + ChangePollIntervalMs
          /\ UNCHANGED <<outcome, refreshes>>
     ELSE ChangeEnds

\* waitForState: getCodespace returned r after d ms.
WaitFetched(r, d) ==
  /\ UNCHANGED <<nonWaitVars, call>>
  /\ pc = "wait_fetch"
  /\ seen' = Remember(seen, r)
  /\ observer' = "waitForState"
  /\ elapsed' = elapsed + d
  /\ UNCHANGED <<fresh, commands, refreshes>>
  /\ IF r = NotFound THEN Finish("not_found")
     ELSE IF r = TargetState THEN Finish("ok")
     ELSE IF r = "Failed" THEN Finish("failed_state")
     ELSE pc' = "wait_sleep" /\ outcome' = outcome

\* The guard of waitForState's loop, evaluated elapsedMs after startTime.
WaitGuardInclusive(elapsedMs) == elapsedMs <= TimeoutMs
WaitGuard(elapsedMs) == elapsedMs < TimeoutMs

\* Line 478: token?.isCancellationRequested at the top of the loop.
CancellationNeverObserved == FALSE
CancellationObserved == token.given /\ token.isCancellationRequested

\* waitForState: the sleep ended; the loop guard, then the token, are evaluated.
WaitSlept ==
  /\ UNCHANGED <<nonWaitVars, call>>
  /\ pc = "wait_sleep"
  /\ elapsed' = elapsed + PollIntervalMs
  /\ UNCHANGED <<fresh, seen, observer, commands, refreshes>>
  /\ IF WaitGuard(elapsed + PollIntervalMs)
     THEN IF CancellationObserved
          THEN Finish("cancelled")
          ELSE pc' = "wait_fetch" /\ outcome' = outcome
     ELSE Finish("timeout")

\* The outcomes with which waitForState throws an error of its own, and that
\* error (lines 480, 486, 494 and 500): its type and its message.
WaitErrors == {"cancelled", "not_found", "failed_state", "timeout"}
WaitForStateError(o) ==
  [type |-> "COMMAND_FAILED",
   message |-> CASE o = "cancelled" -> "Operation cancelled"
                 [] o = "not_found" -> "Codespace {0} not found"
                 [] o = "failed_state" -> "Codespace {0} is in failed state"
                 [] o = "timeout" ->
                      "Timeout waiting for codespace {0} to reach state {1}"]

\* waitForState(name, targetState, 300000, 3000, token) called directly, with a
\* token or without, cancellation already requested or not: the first
\* evaluation of the loop guard (0 < timeoutMs) and of the token.
WaitForStateCall(targetState, given, requested) ==
  /\ UNCHANGED nonTokenVars
  /\ pc = "idle"
  /\ requested => given
  /\ call' = [NoCall EXCEPT !.op = "waitForState", !.state = targetState]
  /\ token' = [at |-> IF requested THEN "entry" ELSE "none", given |-> given,
               isCancellationRequested |-> requested]
  /\ UNCHANGED <<fresh, seen, observer, commands, refreshes>>
  /\ IF given /\ requested
     THEN Finish("cancelled") /\ elapsed' = elapsed
     ELSE EnterWaitForState

\* The owner of the token requests cancellation while waitForState awaits
\* getCodespace or its sleep.
CancellationRequested ==
  /\ UNCHANGED <<nonTokenVars, waitVars>>
  /\ call.op = "waitForState"
  /\ pc \in {"wait_fetch", "wait_sleep"}
  /\ token.given /\ ~token.isCancellationRequested
  /\ token' = [token EXCEPT !.isCancellationRequested = TRUE, !.at = pc]


(***************************************************************************)
(* connect (codespaceManager.ts, lines 1122-1197) with waitForSshReady     *)
(* (ghCli.ts).  The run of ensureCodespaceAvailable is the one above;      *)
(* `conn` is the rest of connect: where it stands, its argument's          *)
(* repository, the configured number of probe attempts, entries[0], the    *)
(* probe attempt, the steps it completed in their order, and its error.    *)
(***************************************************************************)
\* codespace.repository of the argument: "owner/repo", or none.
Repositories == {<<"a", "/", "b">>, <<>>}
\* openSpaces.sshProbeRetries.
ProbeRetries == 0..MaxAttempts

\* What getSshConfig may return: no entry at all, an entry, an entry with an
\* identity file, an entry whose host holds a tab.
SshConfigOutputs ==
  {<<>>, <<"x", " ", "a">>, <<"Host", " ", "a">>,
   <<"Host", " ", "a", "\n", " ", " ", "IdentityFile", " ", "b">>,
   <<"Host", " ", "a", "\t", "b">>}

\* codespace.repository.split('/').pop().
RepoName(repository) == Split(repository, "/")[Len(Split(repository, "/"))]

NoConnect ==
  [pc |-> "idle", repository |-> <<>>, retries |-> 0, entry |-> NoEntry,
   attempt |-> 0, steps |-> <<>>, error |-> "none"]

ConnInit == conn = NoConnect

\* connect throws: the run ends with this error.
Raise(c, e) == [c EXCEPT !.pc = "failed", !.error = e]

\* connect(codespace): ensureCodespaceAvailable issues its re-fetch.
ConnectCall(repository, retries) ==
  /\ UNCHANGED <<nonConnVars, sshVars, call>>
  /\ conn.pc = "idle" /\ pc = "idle"
  /\ conn' = [NoConnect EXCEPT !.pc = "ensure", !.repository = repository,
                               !.retries = retries]
  /\ pc' = "ensure_fetch"
  /\ UNCHANGED <<fresh, elapsed, seen, observer, outcome, commands, refreshes>>

\* Whether connect goes on after ensureCodespaceAvailable ended with outcome o.
GoesOnAlways(o) == TRUE
GoesOn(o) == o = "ok"

\* Line 1123: ensureCodespaceAvailable returned or threw; getSshConfig is called.
EnsureReturned ==
  /\ UNCHANGED <<nonConnVars, waitVars, sshVars>>
  /\ conn.pc = "ensure" /\ pc = "done"
  /\ conn' = IF GoesOn(outcome)
             THEN [conn EXCEPT !.pc = "ssh_config", !.steps = Append(@, "available")]
             ELSE Raise(conn, outcome)

\* waitForSshReady is entered with the configured number of attempts: with
\* none to make it throws at once, else the first probe is issued.
EnterWaitForSshReady(c) ==
  IF 1 <= c.retries THEN [c EXCEPT !.pc = "probe", !.attempt = 1]
  ELSE Raise(c, "not_ready")

\* Lines 1161-1176: setEntry(entry), which throws on a value it rejects and
\* then leaves the file alone, and waitForSshReady after it.
Persist(c, entry) ==
  /\ SetEntryBody(entry)
  /\ conn' = IF FormatThrows(entry) THEN Raise(c, "invalid_value")
             ELSE EnterWaitForSshReady([c EXCEPT !.steps = Append(@, "persisted")])

\* Lines 1126-1176: getSshConfig returned configOutput, which is parsed; the
\* identity file of entries[0] exists or not.
SshConfigReturned(configOutput, identityFileExists) ==
  LET entries == ParseSshConfigOutput(configOutput)
      parsed == [conn EXCEPT !.entry = entries[1], !.steps = Append(@, "parsed")]
  IN  /\ UNCHANGED <<nonConnVars, waitVars>>
      /\ conn.pc = "ssh_config"
      /\ IF Len(entries) = 0
         THEN conn' = Raise(conn, "no_entries") /\ UNCHANGED sshVars
         ELSE IF entries[1].identityFile # <<>> /\ ~identityFileExists
         THEN conn' = [parsed EXCEPT !.pc = "keys"] /\ UNCHANGED sshVars
         ELSE Persist(parsed, entries[1])

\* getSshConfig threw.
SshConfigThrows ==
  /\ UNCHANGED <<nonConnVars, waitVars, sshVars>>
  /\ conn.pc = "ssh_config"
  /\ conn' = Raise(conn, "tool_error")

\* ensureSshKeys returned (it swallows the failure of its command).
KeysReturned ==
  /\ UNCHANGED <<nonConnVars, waitVars>>
  /\ conn.pc = "keys"
  /\ Persist(conn, conn.entry)

\* waitForSshReady: the probe command succeeded, waitForSshReady returns and
\* remote-ssh.refreshHosts is executed.
ProbeReady ==
  /\ UNCHANGED <<nonConnVars, waitVars, sshVars>>
  /\ conn.pc = "probe"
  /\ conn' = [conn EXCEPT !.pc = "refresh_hosts", !.steps = Append(@, "probed")]

\* waitForSshReady: the probe command failed; a sleep follows unless this was
\* the last attempt, after which waitForSshReady throws.
ProbeNotReadyAlwaysSleeps ==
  /\ UNCHANGED <<nonConnVars, waitVars, sshVars>>
  /\ conn.pc = "probe"
  /\ conn' = [conn EXCEPT !.pc = "probe_sleep"]
ProbeNotReady ==
  /\ UNCHANGED <<nonConnVars, waitVars, sshVars>>
  /\ conn.pc = "probe"
  /\ conn' = IF conn.attempt < conn.retries THEN [conn EXCEPT !.pc = "probe_sleep"]
             ELSE Raise(conn, "not_ready")

\* waitForSshReady: the sleep ended and the next probe is issued.
ProbeSlept ==
  /\ UNCHANGED <<nonConnVars, waitVars, sshVars>>
  /\ conn.pc = "probe_sleep"
  /\ conn' = [conn EXCEPT !.pc = "probe", !.attempt = @ + 1]

\* Lines 1179-1196: remote-ssh.refreshHosts settled (a rejection is ignored);
\* without a repository name connect throws, else vscode.openFolder is executed.
HostsRefreshed ==
  /\ UNCHANGED <<nonConnVars, waitVars, sshVars>>
  /\ conn.pc = "refresh_hosts"
  /\ conn' = IF RepoName(conn.repository) = <<>> THEN Raise(conn, "no_repository")
             ELSE [conn EXCEPT !.pc = "open_folder", !.steps = Append(@, "hand_off")]

\* vscode.openFolder settled: connect returns, or throws its rejection.
FolderOpened(ok) ==
  /\ UNCHANGED <<nonConnVars, waitVars, sshVars>>
  /\ conn.pc = "open_folder"
  /\ conn' = IF ok THEN [conn EXCEPT !.pc = "done"] ELSE Raise(conn, "open_failed")


(***************************************************************************)
(* State synchronization engine: CodespaceTreeProvider                     *)
(* (ui/codespaceTreeProvider.ts).  Every await of loadCodespacesInternal   *)
(* is a point where other callbacks run, so an activation is a record in   *)
(* `reloads` that stands at one of its awaits:                             *)
(*   prereq   await codespaceManager.checkPrerequisites()                  *)
(*   list     await ghCli.listCodespaces()  (or getCodespace)              *)
(*   running  await Promise.all over the Available workspaces              *)
(*   stopped  await Promise.all over the Shutdown workspaces               *)
(* `shared` tells whether the objects the activation's pending fetches     *)
(* will write to are the ones this.codespaces holds now; `pending` are the *)
(* workspaces whose fetches of the current Promise.all have not settled.   *)
(***************************************************************************)
\* The names of the workspaces; BadName is one that validateCodespaceName
\* (ghCli.ts) rejects, one holding an underscore, say: listCodespaces returns
\* any string as a name.
BadName == 0
Names == BadName..MaxCodespaces
Slots == 1..MaxReloads
NotListed == "absent"
\* The entry of `codespaces` for a name the collection does not hold.
NoCs == [state |-> NotListed, idleTimeoutMinutes |-> FALSE, machineInfo |-> FALSE]

\* The states the remote side lists a workspace in.
ListedStates == {"Available", "Shutdown", "Starting", "Failed"}
\* What listCodespaces may return: for each name, its state or not listed.
\* (BadName in the states whose workspaces the reload enriches: in the others
\* it behaves as any name does.)
Listings ==
  {l \in [Names -> ListedStates \cup {NotListed}] :
     l[BadName] \in {NotListed, "Available", "Shutdown"}}

\* A Codespace object as listCodespaces builds it: idleTimeoutMinutes and
\* machineInfo are unset until the enrichment of loadCodespacesInternal sets them.
Fresh(listing) ==
  [n \in Names |->
     IF listing[n] = NotListed THEN NoCs
     ELSE [state |-> listing[n], idleTimeoutMinutes |-> FALSE, machineInfo |-> FALSE]]

AllRunning == Fresh([n \in Names |-> "Available"])
Empty == [n \in Names |-> NoCs]

FreeSlot ==
  [pc |-> "free", caller |-> "none", explicit |-> FALSE, shared |-> FALSE,
   pending |-> {}]

InFlight == {r \in Slots : reloads[r].pc # "free"}

WithState(cs, state) == {n \in Names : cs[n] # NoCs /\ cs[n].state = state}

\* startPollingIfNeeded, line 173.
HasTransitional(cs) == \E n \in Names : cs[n] # NoCs /\ IsTransitionalState(cs[n].state)

\* validateCodespaceName (ghCli.ts) passes.
ValidCodespaceName(n) == n # BadName
\* The workspaces of cs in the given state whose fetches reject at once:
\* getCodespaceIdleTimeout and getCodespaceMachineInfo validate the name
\* outside their try.
Rejecting(cs, state) == {n \in WithState(cs, state) : ~ValidCodespaceName(n)}

PrereqResults == {"ready", "NOT_INSTALLED", "NOT_AUTHENTICATED", "SCOPE_REQUIRED"}

SyncInit ==
  /\ codespaces = Empty
  /\ loading = TRUE
  /\ error = "null"
  /\ ghInstalled = TRUE
  /\ authenticated = TRUE
  /\ hasCodespaceScope = TRUE
  /\ isPolling = FALSE
  /\ pollTimer = FALSE
  /\ backgroundRefreshTimer = FALSE
  /\ isVisible = FALSE
  /\ livePoll = 0
  /\ liveBackground = 0
  /\ reloads = [r \in Slots |-> FreeSlot]
  /\ providerDisposed = FALSE

\* void this.loadCodespacesInternal(): the activation runs up to its first await.
\* caller is loadCodespaces or the timer whose callback made the call.
Spawn(rl, caller) ==
  [rl EXCEPT ![Min({r \in Slots : rl[r].pc = "free"})] =
     [pc |-> "prereq", caller |-> caller, explicit |-> caller = "loadCodespaces",
      shared |-> FALSE, pending |-> {}]]

\* stopPolling.
StopPollingKeepsInterval ==
  /\ isPolling' = FALSE
  /\ pollTimer' = FALSE
  /\ livePoll' = livePoll
StopPolling ==
  /\ isPolling' = FALSE
  /\ pollTimer' = FALSE
  /\ livePoll' = IF pollTimer THEN livePoll - 1 ELSE livePoll

\* refresh(): loading = true, then loadCodespaces() up to its first await.
RefreshBody ==
  /\ InFlight # Slots
  /\ loading' = TRUE
  /\ StopPolling
  /\ reloads' = Spawn(reloads, "loadCodespaces")
  /\ UNCHANGED <<codespaces, error, ghInstalled, authenticated, hasCodespaceScope>>

Refresh ==
  /\ UNCHANGED nonSyncVars
  /\ RefreshBody
  /\ UNCHANGED <<backgroundRefreshTimer, isVisible, liveBackground>>

\* startBackgroundRefresh.
NeverStartBackgroundRefresh == UNCHANGED <<backgroundRefreshTimer, liveBackground>>
StartBackgroundRefresh ==
  IF backgroundRefreshTimer
  THEN UNCHANGED <<backgroundRefreshTimer, liveBackground>>
  ELSE backgroundRefreshTimer' = TRUE /\ liveBackground' = liveBackground + 1

KeepBackgroundRefresh == UNCHANGED <<backgroundRefreshTimer, liveBackground>>
\* stopBackgroundRefresh.
StopBackgroundRefresh ==
  /\ backgroundRefreshTimer' = FALSE
  /\ liveBackground' = IF backgroundRefreshTimer THEN liveBackground - 1
                       ELSE liveBackground

\* setVisible(visible).
SetVisible(visible) ==
  /\ UNCHANGED nonSyncVars
  /\ isVisible' = visible
  /\ IF visible /\ ~isVisible
     THEN RefreshBody /\ StartBackgroundRefresh
     ELSE IF ~visible /\ isVisible
     THEN /\ StopBackgroundRefresh
          /\ UNCHANGED <<codespaces, loading, error, ghInstalled, authenticated,
                         hasCodespaceScope, isPolling, pollTimer, livePoll, reloads>>
     ELSE UNCHANGED <<codespaces, loading, error, ghInstalled, authenticated,
                      hasCodespaceScope, isPolling, pollTimer, livePoll, reloads,
                      backgroundRefreshTimer, liveBackground>>

\* The handler of onDidChangeConfiguration for a change of
\* openSpaces.backgroundRefreshInterval (lines 69-77): the background timer is
\* disarmed and, when the view is visible, armed again with the new interval.
ConfigChanged ==
  /\ UNCHANGED nonSyncVars
  /\ backgroundRefreshTimer' = isVisible
  /\ liveBackground' = (IF backgroundRefreshTimer THEN liveBackground - 1
                        ELSE liveBackground) + (IF isVisible THEN 1 ELSE 0)
  /\ UNCHANGED <<codespaces, loading, error, ghInstalled, authenticated,
                 hasCodespaceScope, isPolling, pollTimer, isVisible, livePoll,
                 reloads>>

\* dispose() (lines 382-386): stopPolling and stopBackgroundRefresh; the
\* activations of loadCodespacesInternal that are in flight go on.
DisposeProvider ==
  /\ UNCHANGED nonProviderVars
  /\ ~providerDisposed
  /\ providerDisposed' = TRUE
  /\ StopPolling
  /\ StopBackgroundRefresh
  /\ UNCHANGED <<codespaces, loading, error, ghInstalled, authenticated,
                 hasCodespaceScope, isVisible, reloads>>

\* The callback of the fast-poll interval (lines 177-181).
PollTick ==
  /\ UNCHANGED nonSyncVars
  /\ livePoll > 0
  /\ isPolling => InFlight # Slots
  /\ reloads' = IF isPolling THEN Spawn(reloads, "pollTimer") ELSE reloads
  /\ UNCHANGED <<codespaces, loading, error, ghInstalled, authenticated,
                 hasCodespaceScope, isPolling, pollTimer, backgroundRefreshTimer,
                 isVisible, livePoll, liveBackground>>

\* The callback of the background interval (lines 212-216).
BackgroundTick ==
  /\ UNCHANGED nonSyncVars
  /\ liveBackground > 0
  /\ isVisible => InFlight # Slots
  /\ reloads' = IF isVisible THEN Spawn(reloads, "backgroundRefreshTimer") ELSE reloads
  /\ UNCHANGED <<codespaces, loading, error, ghInstalled, authenticated,
                 hasCodespaceScope, isPolling, pollTimer, backgroundRefreshTimer,
                 isVisible, livePoll, liveBackground>>

\* startPollingIfNeeded, run on the collection cs that this.codespaces holds.
StartPollingIfNeeded(cs) ==
  IF ~isPolling /\ HasTransitional(cs)
  THEN isPolling' = TRUE /\ pollTimer' = TRUE /\ livePoll' = livePoll + 1
  ELSE UNCHANGED <<isPolling, pollTimer, livePoll>>

\* loadCodespacesInternal returns in activation r with this.codespaces = cs; when
\* loadCodespaces awaited it (an explicit refresh), startPollingIfNeeded follows.
\* rl is `reloads` as the activation's last step left it.
ReturnsKeepsLoading(r, rl, cs) ==
  /\ reloads' = [rl EXCEPT ![r] = FreeSlot]
  /\ loading' = loading
  /\ IF reloads[r].explicit THEN StartPollingIfNeeded(cs)
     ELSE UNCHANGED <<isPolling, pollTimer, livePoll>>
Returns(r, rl, cs) ==
  /\ reloads' = [rl EXCEPT ![r] = FreeSlot]
  /\ loading' = FALSE
  /\ IF reloads[r].explicit THEN StartPollingIfNeeded(cs)
     ELSE UNCHANGED <<isPolling, pollTimer, livePoll>>

\* this.codespaces is assigned a new array: no other activation's objects are
\* the cached ones any longer.
Unshare(rl) == [q \in Slots |-> [rl[q] EXCEPT !.shared = FALSE]]

\* Lines 100-115: checkPrerequisites() returned.
PrereqDone(r, res) ==
  /\ UNCHANGED nonSyncVars
  /\ reloads[r].pc = "prereq"
  /\ UNCHANGED <<backgroundRefreshTimer, isVisible, liveBackground>>
  /\ IF res # "ready"
     THEN /\ ghInstalled' = (res # "NOT_INSTALLED")
          /\ authenticated' = (res = "SCOPE_REQUIRED")
          /\ hasCodespaceScope' = FALSE
          /\ error' = res
          /\ codespaces' = Empty
          /\ Returns(r, Unshare(reloads), Empty)
     ELSE /\ ghInstalled' = TRUE
          /\ authenticated' = TRUE
          /\ hasCodespaceScope' = TRUE
          /\ reloads' = [reloads EXCEPT ![r].pc = "list"]
          /\ UNCHANGED <<codespaces, loading, error, isPolling, pollTimer, livePoll>>

\* Lines 160-165 after a fetch of the enrichment rejected: Promise.all rejects
\* with the error of validateCodespaceName and the catch block runs.
Caught(r, rl) ==
  /\ error' = "invalid_name"
  /\ codespaces' = Empty
  /\ Returns(r, Unshare(rl), Empty)

\* Lines 146-159 in activation r, entered with this.codespaces = cs: the machine
\* info of the Shutdown workspaces of cs is fetched; with none to fetch the
\* reload ends (error = null, loading = false).
StoppedPhase(r, rl, cs) ==
  IF Rejecting(cs, "Shutdown") # {}
  THEN Caught(r, rl)
  ELSE IF WithState(cs, "Shutdown") # {}
  THEN /\ codespaces' = cs
       /\ reloads' = [rl EXCEPT ![r].pc = "stopped", ![r].shared = TRUE,
                                ![r].pending = WithState(cs, "Shutdown")]
       /\ UNCHANGED <<loading, error, isPolling, pollTimer, livePoll>>
  ELSE /\ codespaces' = cs
       /\ error' = "null"
       /\ Returns(r, rl, cs)

\* Lines 117-144: the listing arrived and is stored; the idle timeout and the
\* machine info of its Available workspaces are fetched.
ListDone(r, listing) ==
  /\ UNCHANGED nonSyncVars
  /\ reloads[r].pc = "list"
  /\ UNCHANGED <<ghInstalled, authenticated, hasCodespaceScope,
                 backgroundRefreshTimer, isVisible, liveBackground>>
  /\ IF Rejecting(Fresh(listing), "Available") # {}
     THEN Caught(r, reloads)
     ELSE IF WithState(Fresh(listing), "Available") # {}
     THEN /\ codespaces' = Fresh(listing)
          /\ reloads' = [Unshare(reloads) EXCEPT
                           ![r].pc = "running", ![r].shared = TRUE,
                           ![r].pending = WithState(Fresh(listing), "Available")]
          /\ UNCHANGED <<loading, error, isPolling, pollTimer, livePoll>>
     ELSE StoppedPhase(r, Unshare(reloads), Fresh(listing))

\* Lines 160-165: the prerequisite check or the listing threw.
ReloadThrows(r) ==
  /\ UNCHANGED nonSyncVars
  /\ reloads[r].pc \in {"prereq", "list"}
  /\ error' = "thrown"
  /\ codespaces' = Empty
  /\ Returns(r, Unshare(reloads), Empty)
  /\ UNCHANGED <<ghInstalled, authenticated, hasCodespaceScope,
                 backgroundRefreshTimer, isVisible, liveBackground>>

\* What the callback of lines 128-143 (running) or 149-154 (stopped) writes to
\* workspace n once its fetches settled: a fetch that returned null writes nothing.
EnrichedOrDropped(cs, n, phase, idleInfo, machineInfo) ==
  IF machineInfo THEN [cs EXCEPT ![n].machineInfo = TRUE] ELSE [cs EXCEPT ![n] = NoCs]
Enriched(cs, n, phase, idleInfo, machineInfo) ==
  [cs EXCEPT ![n] =
     [state |-> cs[n].state,
      idleTimeoutMinutes |-> cs[n].idleTimeoutMinutes \/ (phase = "running" /\ idleInfo),
      machineInfo |-> cs[n].machineInfo \/ machineInfo]]

\* The fetches of workspace n in activation r settled (idleInfo, machineInfo:
\* whether getCodespaceIdleTimeout / getCodespaceMachineInfo returned a value).
EnrichSettled(r, n, idleInfo, machineInfo) ==
  LET me == reloads[r]
      cs == IF me.shared THEN Enriched(codespaces, n, me.pc, idleInfo, machineInfo)
            ELSE codespaces
      rl == [reloads EXCEPT ![r].pending = me.pending \ {n}]
  IN  /\ UNCHANGED nonSyncVars
      /\ me.pc \in {"running", "stopped"}
      /\ n \in me.pending
      /\ me.pc = "stopped" => ~idleInfo
      /\ UNCHANGED <<ghInstalled, authenticated, hasCodespaceScope,
                     backgroundRefreshTimer, isVisible, liveBackground>>
      /\ IF me.pending # {n}
         THEN /\ codespaces' = cs
              /\ reloads' = rl
              /\ UNCHANGED <<loading, error, isPolling, pollTimer, livePoll>>
         ELSE IF me.pc = "running"
         THEN StoppedPhase(r, rl, cs)
         ELSE /\ codespaces' = cs
              /\ error' = "null"
              /\ Returns(r, rl, cs)


(***************************************************************************)
(* The engine with the remote side it lists: every tool invocation of a    *)
(* reload succeeds and listCodespaces returns the workspaces the remote    *)
(* side holds when it answers.                                             *)
(***************************************************************************)
\* The remote workspace sets: workspaces with valid names, each created,
\* started (Starting, then Available) and deleted independently.
RemoteStates == {"Available", "Starting"}
RemoteListings ==
  {l \in Listings : /\ l[BadName] = NotListed
                    /\ \A n \in Names : l[n] \in RemoteStates \cup {NotListed}}

RemoteInit ==
  /\ remote = [n \in Names |-> NotListed]
  /\ frozen = FALSE

\* A workspace is created or deleted or changes state on the remote side.
RemoteChanges(listing) ==
  /\ UNCHANGED nonRemoteVars
  /\ ~frozen
  /\ listing # remote
  /\ remote' = listing
  /\ frozen' = frozen

\* The remote workspace set changes no more.
RemoteFreezes ==
  /\ UNCHANGED nonRemoteVars
  /\ ~frozen
  /\ frozen' = TRUE
  /\ remote' = remote

\* await checkPrerequisites() of activation r resolves: ready.
PrereqReady(r) == PrereqDone(r, "ready")
\* await ghCli.listCodespaces() of activation r resolves.
Listed(r) == ListDone(r, remote)
\* The fetches of one workspace of activation r settle, each with its value.
EnrichSucceeds(r) ==
  \E n \in Names : EnrichSettled(r, n, reloads[r].pc = "running", TRUE)

(***************************************************************************)
(* The Directory Client (ghCli.ts): each operation as a function of the    *)
(* name it is called with, of how the gh process ended and of what it      *)
(* wrote to stdout.                                                        *)
(***************************************************************************)
\* GhCliErrorType (types.ts).
GhCliErrorTypes ==
  {"NOT_INSTALLED", "NOT_AUTHENTICATED", "SCOPE_REQUIRED", "COMMAND_FAILED",
   "PARSE_ERROR"}

\* The operations: list, get, start, stop, rebuild, delete and the fetch of
\* the connection parameters.
ClientOps ==
  {"listCodespaces", "getCodespace", "startCodespace", "stopCodespace",
   "rebuildCodespace", "deleteCodespace", "getSshConfig"}
\* How execFile may settle: it resolves, or it rejects with an error whose
\* code is ENOENT (no gh executable) or EACCES, with the exit status of gh
\* (exit_1), because the timeout killed the process, or because the output
\* exceeded maxBuffer.
ExecEnds == {"ok", "ENOENT", "EACCES", "exit_1", "killed", "maxBuffer"}
\* What stdout holds: a JSON array of codespace objects, no JSON, JSON of
\* another structure.
Stdouts == {"codespaces", "no_json", "other_json"}

\* How a call ends: it returns, or it throws a GhCliError of some type, or it
\* throws an error that is no GhCliError and has no type.
Returned == [thrown |-> FALSE, ghCliError |-> FALSE, type |-> "none"]
GhCliError(type) == [thrown |-> TRUE, ghCliError |-> TRUE, type |-> type]
ExecError == [thrown |-> TRUE, ghCliError |-> FALSE, type |-> "none"]

\* runGh: the rejection of execFile is rethrown as it is unless its code is
\* ENOENT.
RunGh(exec) ==
  IF exec = "ok" THEN Returned
  ELSE IF exec = "ENOENT" THEN GhCliError("NOT_INSTALLED")
  ELSE ExecError

\* JSON.parse and isCodespaceResponse in listCodespaces and getCodespace.
ParseCodespaces(stdout) ==
  IF stdout = "codespaces" THEN Returned ELSE GhCliError("PARSE_ERROR")

\* An operation: validateCodespaceName (listCodespaces takes no name), runGh,
\* and for the two that read stdout as JSON its parse.
DirectoryCall(op, name, exec, stdout) ==
  IF op # "listCodespaces" /\ ~ValidCodespaceName(name)
  THEN GhCliError("COMMAND_FAILED")
  ELSE IF RunGh(exec).thrown THEN RunGh(exec)
  ELSE IF op \in {"listCodespaces", "getCodespace"} THEN ParseCodespaces(stdout)
  ELSE Returned

NoClientCall ==
  [op |-> "none", name |-> BadName, exec |-> "ok", stdout |-> "codespaces",
   result |-> Returned]

ClientInit == client = NoClientCall

\* One call of an operation.
ClientCall(op, name, exec, stdout) ==
  /\ UNCHANGED nonClientVars
  /\ client' = [op |-> op, name |-> name, exec |-> exec, stdout |-> stdout,
                result |-> DirectoryCall(op, name, exec, stdout)]

(***************************************************************************)
(* Connection health monitor: ConnectionHealthMonitor                      *)
(* (connectionHealthMonitor.ts).  The interval calls check() on every tick *)
(* whether or not an earlier check() still awaits its probe, so several    *)
(* probes can be in flight; the prompt's answer arrives in a later task.   *)
(***************************************************************************)
maxFailures == 3

HealthInit ==
  /\ timer = FALSE
  /\ consecutiveFailures = 0
  /\ liveIntervals = 0
  /\ probes = 0
  /\ prompts = 0
  /\ monitorStarted = FALSE
  /\ disposed = FALSE
  /\ awaitingUser = FALSE
  /\ hmEvent = "none"

\* start(): this.timer = setInterval(...), whatever this.timer held.
Start ==
  /\ timer' = TRUE
  /\ liveIntervals' = liveIntervals + 1

\* stop().
Stop ==
  /\ timer' = FALSE
  /\ liveIntervals' = IF timer THEN liveIntervals - 1 ELSE liveIntervals

\* activate(): healthMonitor = new ConnectionHealthMonitor(...); start().
MonitorStart ==
  /\ UNCHANGED nonHealthVars
  /\ ~monitorStarted /\ ~disposed
  /\ monitorStarted' = TRUE
  /\ Start
  /\ hmEvent' = "start"
  /\ UNCHANGED <<consecutiveFailures, probes, prompts, disposed, awaitingUser>>

\* A tick of a live interval: check() runs up to `await runGh(...)`.
ProbeTick ==
  /\ UNCHANGED nonHealthVars
  /\ liveIntervals > 0
  /\ probes < MaxProbes
  /\ probes' = probes + 1
  /\ hmEvent' = "tick"
  /\ UNCHANGED <<timer, consecutiveFailures, liveIntervals, prompts,
                 monitorStarted, disposed, awaitingUser>>

\* The probe of one check() succeeded.
ProbeSucceeds ==
  /\ UNCHANGED nonHealthVars
  /\ probes > 0
  /\ probes' = probes - 1
  /\ consecutiveFailures' = 0
  /\ hmEvent' = "ok"
  /\ UNCHANGED <<timer, liveIntervals, prompts, monitorStarted, disposed,
                 awaitingUser>>

\* The threshold test of check()'s catch block.
AtThreshold(failures) == failures >= maxFailures

\* The probe of one check() failed (or timed out): the catch block.
ProbeFails ==
  /\ UNCHANGED nonHealthVars
  /\ probes > 0
  /\ consecutiveFailures < MaxCount
  /\ probes' = probes - 1
  /\ consecutiveFailures' = consecutiveFailures + 1
  /\ UNCHANGED <<monitorStarted, disposed>>
  /\ IF AtThreshold(consecutiveFailures + 1)
     THEN /\ prompts < MaxPrompts
          /\ Stop
          /\ prompts' = prompts + 1
          /\ awaitingUser' = TRUE
          /\ hmEvent' = "prompt"
     ELSE /\ hmEvent' = "fail"
          /\ UNCHANGED <<timer, liveIntervals, prompts, awaitingUser>>

\* The user selects Reconnect on a prompt.
Reconnect ==
  /\ UNCHANGED nonHealthVars
  /\ prompts > 0
  /\ liveIntervals < MaxPrompts
  /\ prompts' = prompts - 1
  /\ consecutiveFailures' = 0
  /\ Start
  /\ awaitingUser' = FALSE
  /\ hmEvent' = "reconnect"
  /\ UNCHANGED <<probes, monitorStarted, disposed>>

\* The user selects Disconnect (workbench.action.remote.close is executed) or
\* dismisses the prompt: the monitor's state is not touched.
PromptClosed(selection) ==
  /\ UNCHANGED nonHealthVars
  /\ prompts > 0
  /\ prompts' = prompts - 1
  /\ hmEvent' = selection
  /\ UNCHANGED <<timer, consecutiveFailures, liveIntervals, probes,
                 monitorStarted, disposed, awaitingUser>>

\* dispose(): stop().
Dispose ==
  /\ UNCHANGED nonHealthVars
  /\ ~disposed
  /\ disposed' = TRUE
  /\ Stop
  /\ hmEvent' = "dispose"
  /\ UNCHANGED <<consecutiveFailures, probes, prompts, monitorStarted, awaitingUser>>


(***************************************************************************)
(* Stale resource detector: findStaleCodespaces (staleDetector.ts).        *)
(* lastUsedAt is a string: an ISO date (iso, with the time it denotes in   *)
(* ms), the empty string (empty) or text that is no date (garbage).        *)
(***************************************************************************)
DayMs == 86400000    \* 24 * 60 * 60 * 1000

\* Date.now() of the call, and the times an ISO lastUsedAt may denote: whole
\* days before now, and one ms to either side of them.
Nows == {(MaxDays + 1) * DayMs}
UsedTimes(now) ==
  {now - d * DayMs + e : d \in 0..MaxDays, e \in {-1, 0, 1}}

LastUsedAts(now) ==
  {[kind |-> "iso", ms |-> t] : t \in UsedTimes(now)}
  \cup {[kind |-> "empty", ms |-> 0], [kind |-> "garbage", ms |-> 0]}

StaleStates == {"Shutdown", "Available", "Starting"}

\* The arrays findStaleCodespaces is called with: workspace i is named i.
StaleInputs(now) ==
  UNION {[1..n -> [lastUsedAt : LastUsedAts(now), state : StaleStates]] :
           n \in 0..MaxStale}

Named(cs) ==
  [i \in 1..Len(cs) |->
     [lastUsedAt |-> cs[i].lastUsedAt, name |-> i, state |-> cs[i].state]]

\* new Date(lastUsedAt).getTime() < threshold: false when getTime() is NaN.
UsedBefore(lastUsedAt, threshold) ==
  lastUsedAt.kind = "iso" /\ lastUsedAt.ms < threshold

\* The predicate of the filter (lines 12-13).
IsStaleAnyState(cs, threshold) ==
  cs.lastUsedAt.kind # "empty" /\ UsedBefore(cs.lastUsedAt, threshold)
IsStale(cs, threshold) ==
  /\ cs.state = "Shutdown"
  /\ cs.lastUsedAt.kind # "empty"
  /\ UsedBefore(cs.lastUsedAt, threshold)

FindStaleCodespaces(list, thresholdDays, now) ==
  LET threshold == now - thresholdDays * DayMs
      keep(cs) == IsStale(cs, threshold)
  IN  SelectSeq(list, keep)

StaleInit ==
  staleCall = [after |-> <<>>, codespaces |-> <<>>, done |-> FALSE, now |-> 0,
               result |-> <<>>, thresholdDays |-> 0]

\* findStaleCodespaces(list, thresholdDays) called at time now.
FindStale(list, thresholdDays, now) ==
  /\ UNCHANGED nonStaleVars
  /\ staleCall' = [after |-> list, codespaces |-> list, done |-> TRUE, now |-> now,
                   result |-> FindStaleCodespaces(list, thresholdDays, now),
                   thresholdDays |-> thresholdDays]


(***************************************************************************)
(* The read view: CodespaceTreeProvider.getChildren() at the root          *)
(* (ui/codespaceTreeProvider.ts, lines 230-324), for an engine that has    *)
(* loaded without error.  The cache is a sequence of workspaces; workspace *)
(* i is named i.                                                           *)
(***************************************************************************)
\* The repositories of the cached workspaces ("" for none), and the names of
\* the groups in the order localeCompare puts them.
ViewRepositories == {"a", ""}
GroupNames == <<"a", "Unknown">>

ViewStates == {"Available", "Shutdown", "Starting"}
ViewLastUsedAts ==
  {[kind |-> "empty", ms |-> 0], [kind |-> "iso", ms |-> DayMs],
   [kind |-> "iso", ms |-> 2 * DayMs]}

Caches ==
  UNION {[1..n -> [lastUsedAt : ViewLastUsedAts, repository : ViewRepositories,
                   state : ViewStates]] : n \in 0..MaxView}

\* The caches of an engine: one in connected mode is set so before its first
\* load (extension.ts), and its loads cache the connected workspace alone.
CachesOf(connected) == IF connected THEN {cs \in Caches : Len(cs) <= 1} ELSE Caches

Cached(cs) ==
  [i \in 1..Len(cs) |->
     [lastUsedAt |-> cs[i].lastUsedAt, name |-> i,
      repository |-> cs[i].repository, state |-> cs[i].state]]

\* The filter text: none, or "a", which of the model's workspaces matches the
\* repository "a" only (no displayName or branch holds an "a").
FilterTexts == {"", "a"}
FilterStates == {"all", "running", "stopped"}

\* applyFilters.
ApplyFilters(list, filterState, filterText) ==
  LET byState(cs) == CASE filterState = "running" -> cs.state = "Available"
                       [] filterState = "stopped" -> cs.state = "Shutdown"
                       [] OTHER -> TRUE
      byText(cs) == filterText = "" \/ cs.repository = filterText
  IN  SelectSeq(SelectSeq(list, byState), byText)

\* hasActiveFilters.
HasActiveFilters(filterState, filterText) == filterText # "" \/ filterState # "all"

\* cs.repository || 'Unknown'.
RepoOf(cs) == IF cs.repository = "" THEN "Unknown" ELSE cs.repository

\* a.lastUsedAt ? new Date(a.lastUsedAt).getTime() : 0.
TimeOf(cs) == IF cs.lastUsedAt.kind = "empty" THEN 0 ELSE cs.lastUsedAt.ms

\* The comparator of the sort within a repository (lines 302-308).
CompareByTimeOnly(a, b) == TimeOf(b) - TimeOf(a)
CompareCodespaces(a, b) ==
  IF a.state = "Available" /\ b.state # "Available" THEN -1
  ELSE IF a.state # "Available" /\ b.state = "Available" THEN 1
  ELSE TimeOf(b) - TimeOf(a)

\* Array.prototype.sort with that comparator: the sort is stable, so the
\* element at position i goes behind those that compare lower, and behind
\* those that compare equal and stood in front of it.
SortCodespaces(list) ==
  LET rank(i) == Cardinality({j \in 1..Len(list) :
                   \/ CompareCodespaces(list[j], list[i]) < 0
                   \/ CompareCodespaces(list[j], list[i]) = 0 /\ j < i}) + 1
  IN  [p \in 1..Len(list) |-> list[CHOOSE i \in 1..Len(list) : rank(i) = p]]

\* The keys of repoMap in insertion order: the repositories of the list in the
\* order of their first workspace.
RECURSIVE RepoKeys(_)
RepoKeys(list) ==
  IF list = <<>> THEN <<>>
  ELSE LET first == RepoOf(list[1])
           other(cs) == RepoOf(cs) # first
       IN  <<first>> \o RepoKeys(SelectSeq(list, other))

\* repoMap after the sort within each repository: its entries in insertion order.
RepoEntries(list) ==
  [k \in 1..Len(RepoKeys(list)) |->
     LET inRepo(cs) == RepoOf(cs) = RepoKeys(list)[k]
     IN  [codespaces |-> SortCodespaces(SelectSeq(list, inRepo)),
          repository |-> RepoKeys(list)[k]]]

HasRunning(list) == \E i \in 1..Len(list) : list[i].state = "Available"

\* a[0].localeCompare(b[0]).
LocaleCompare(x, y) ==
  (CHOOSE i \in 1..Len(GroupNames) : GroupNames[i] = x)
  - (CHOOSE i \in 1..Len(GroupNames) : GroupNames[i] = y)

\* The comparator of the sort of the repositories (lines 312-318).
CompareRepos(a, b) ==
  IF HasRunning(a.codespaces) /\ ~HasRunning(b.codespaces) THEN -1
  ELSE IF ~HasRunning(a.codespaces) /\ HasRunning(b.codespaces) THEN 1
  ELSE LocaleCompare(a.repository, b.repository)

SortRepos(entries) ==
  LET rank(i) == Cardinality({j \in 1..Len(entries) :
                   \/ CompareRepos(entries[j], entries[i]) < 0
                   \/ CompareRepos(entries[j], entries[i]) = 0 /\ j < i}) + 1
  IN  [p \in 1..Len(entries) |-> entries[CHOOSE i \in 1..Len(entries) : rank(i) = p]]

\* getChildren() at the root, lines 263-323: what the view shows.
GetChildrenRoot(list, filterState, filterText, connected) ==
  IF Len(list) = 0 THEN [kind |-> "NoCodespaces", items |-> <<>>]
  ELSE IF connected THEN [kind |-> "flat", items |-> list]
  ELSE IF /\ Len(ApplyFilters(list, filterState, filterText)) = 0
          /\ HasActiveFilters(filterState, filterText)
  THEN [kind |-> "NoFilterResults", items |-> <<>>]
  ELSE [kind |-> "groups",
        items |-> SortRepos(RepoEntries(ApplyFilters(list, filterState, filterText)))]

ViewInit ==
  viewCall = [after |-> <<>>, codespaces |-> <<>>, connected |-> FALSE,
              done |-> FALSE, filterState |-> "all", filterText |-> "",
              result |-> [kind |-> "none", items |-> <<>>]]

\* getChildren() with this.codespaces = list and the given filters.
GetChildren(list, filterState, filterText, connected) ==
  /\ UNCHANGED nonViewVars
  /\ viewCall' = [after |-> list, codespaces |-> list, connected |-> connected,
                  done |-> TRUE, filterState |-> filterState,
                  filterText |-> filterText,
                  result |-> GetChildrenRoot(list, filterState, filterText, connected)]


(***************************************************************************)
(* Claims about the SSH configuration merger, checked under SpecSsh.       *)
(***************************************************************************)
\* The text in front of the start sentinel and behind the end sentinel (all of
\* the file when it holds no managed block).
TextBefore(f) ==
  IF HasMarkers(f) THEN SubSeq(f, 1, IndexOf(f, MARKER_START) - 1) ELSE f

TextAfter(f) ==
  IF HasMarkers(f) THEN SubSeq(f, IndexOf(f, MARKER_END) + 1, Len(f)) ELSE <<>>

\* A blank line holds nothing but white space.
NonBlank(s) == {i \in 1..Len(s) : ~IsWhiteSpace(s[i])}

\* s without the blank lines at its end: cut at the first line feed behind its
\* last character that is not white space.
DropBlankEnd(s) ==
  IF NonBlank(s) = {} THEN <<>>
  ELSE LET lf == {i \in Max(NonBlank(s))..Len(s) : s[i] = "\n"}
       IN  IF lf = {} THEN s ELSE SubSeq(s, 1, Min(lf) - 1)

\* s without the blank lines at its start.
DropBlankStart(s) ==
  IF NonBlank(s) = {} THEN <<>>
  ELSE LET lf == {i \in 1..Min(NonBlank(s)) : s[i] = "\n"}
       IN  IF lf = {} THEN s ELSE SubSeq(s, Max(lf) + 1, Len(s))

\* The lines of s that are not blank, in order.
RECURSIVE LinesOf(_)
LinesOf(s) ==
  IF IndexOf(s, "\n") = 0 THEN <<s>>
  ELSE <<SubSeq(s, 1, IndexOf(s, "\n") - 1)>>
       \o LinesOf(SubSeq(s, IndexOf(s, "\n") + 1, Len(s)))

IsNonBlankLine(l) == NonBlank(l) # {}
NonBlankLines(s) == SelectSeq(LinesOf(s), IsNonBlankLine)

HasControl(value) == \E i \in 1..Len(value) : value[i] \in {"\n", "\r", "\t", "\f"}

Succeeded(kind) == lastOp.kind = kind /\ ~lastOp.threw

\* C5: for every file content and every valid entry e, setEntry(e) followed by
\* setEntry(e) leaves the file exactly as the first setEntry(e) left it: in the
\* state a successful setEntry(e) produced, merging e again changes nothing.
C5_MergeIdempotent ==
  Succeeded("setEntry") => UpdateManagedSection(file, <<lastOp.entry>>) = file

\* C6: setEntry throws whenever a populated field of the entry holds a line
\* feed, a carriage return or another control character, and then the file is
\* exactly what it was before the call.
C6_InvalidValueRejected ==
  (/\ lastOp.kind = "setEntry"
   /\ \E f \in PopulatedFields(lastOp.entry) : HasControl(lastOp.entry[f]))
  => lastOp.threw /\ file = prevFile

\* C6 witness: a call with a carriage return in hostName threw and left a file
\* that holds a managed block and user text as it was.
C6_Witness ==
  /\ lastOp.kind = "setEntry"
  /\ lastOp.threw
  /\ HasControl(lastOp.entry.hostName)
  /\ ~HasControl(lastOp.entry.host)
  /\ HasMarkers(file)
  /\ Count(file, "x") > 0
  /\ file = prevFile

\* C7: every merge keeps the text in front of the start sentinel and the text
\* behind the end sentinel verbatim, apart from blank lines at the seams with
\* the managed block.  When the call creates or removes the block, the lines of
\* the text outside it that are not blank stay what they were, in their order.
C7_OutsideVerbatim ==
  (lastOp.kind # "none" /\ ~lastOp.threw) =>
    IF HasMarkers(prevFile) /\ HasMarkers(file)
    THEN /\ DropBlankEnd(TextBefore(file)) = DropBlankEnd(TextBefore(prevFile))
         /\ DropBlankStart(TextAfter(file)) = DropBlankStart(TextAfter(prevFile))
    ELSE NonBlankLines(TextBefore(file) \o <<"\n">> \o TextAfter(file))
           = NonBlankLines(TextBefore(prevFile) \o <<"\n">> \o TextAfter(prevFile))

C24_ManagedHostIsEntryHost ==
  /\ [](managedHost.done =>
          /\ managedHost.after.kind = "setEntry" /\ ~managedHost.after.threw =>
               managedHost.result =
                 [found |-> TRUE, host |-> managedHost.after.entry.host]
          /\ ~HasMarkers(managedHost.config)
               \/ managedHost.after.kind = "clearEntries" =>
               managedHost.result = NoMatch)
  /\ [][managedHost' # managedHost => file' = file]_vars

\* What holds of getManagedHost: after a successful setEntry(e) it returns the
\* part of e.host up to its first white space; on a file without both
\* sentinels, and after clearEntries, it returns undefined; it never writes.
ManagedHostIsFirstPattern ==
  /\ [](managedHost.done =>
          /\ managedHost.after.kind = "setEntry" /\ ~managedHost.after.threw =>
               /\ managedHost.result.found
               /\ managedHost.result.host =
                    Split(managedHost.after.entry.host, " ")[1]
          /\ ~HasMarkers(managedHost.config)
               \/ managedHost.after.kind = "clearEntries" =>
               managedHost.result = NoMatch)
  /\ [][managedHost' # managedHost => file' = file]_vars

(***************************************************************************)
(* Claims about the merger on a file of any content, checked under         *)
(* SpecSshAny.                                                             *)
(***************************************************************************)
\* C25 as stated: after any setEntry / clearEntries that wrote the file, the
\* file holds at most one start sentinel and at most one end sentinel, and the
\* start sentinel in front of the end sentinel when it holds both.
C25_SentinelsWellFormed ==
  lastOp.kind \in {"setEntry", "clearEntries"} /\ ~lastOp.threw =>
    /\ Count(file, MARKER_START) <= 1
    /\ Count(file, MARKER_END) <= 1
    /\ HasMarkers(file) => IndexOf(file, MARKER_START) < IndexOf(file, MARKER_END)

\* What holds: a file whose sentinels are well formed (none, or one start
\* sentinel in front of one end sentinel) stays so.
SentinelsStayWellFormed == [][WellFormed(file) => WellFormed(file')]_vars

(***************************************************************************)
(* Claims about parseSshConfigOutput, checked under SpecParse.             *)
(***************************************************************************)
\* C15: for every entry e that parseSshConfigOutput returned, formatting e and
\* parsing the text again returns exactly one entry, equal to e in every
\* populated field.
C15_FormatParseRoundTrip ==
  rt.done =>
    /\ ~rt.threw
    /\ Len(rt.out) = 1
    /\ \A f \in PopulatedFields(rt.entry) : rt.out[1][f] = rt.entry[f]

\* The lines of the text of the last call, and what the pattern finds in each.
ParsedLines == Split(psIn, "\n")
KeyLine(i) == MatchLine(Trim(ParsedLines[i]))
\* A blank line, a comment line, or a line that is not a key and a value.
IsBlankLine(i) == Trim(ParsedLines[i]) = <<>>
IsCommentLine(i) == ~IsBlankLine(i) /\ StartsWithHash(Trim(ParsedLines[i])[1])
IsKeyLine(i) == ~IsBlankLine(i) /\ ~IsCommentLine(i) /\ KeyLine(i).matched
\* A Host line: a key line whose key is Host in any case.
IsHostLine(i) == IsKeyLine(i) /\ KeyLine(i).key \in {<<"Host">>, <<"host">>}
HostLines == {i \in 1..Len(ParsedLines) : IsHostLine(i)}
\* The field a key line assigns, whatever the case of its key; "none" for a
\* line that is no key line and for an unrecognized key.
FieldOfLine(i) ==
  IF ~IsKeyLine(i) THEN "none"
  ELSE IF IsHostLine(i) THEN "host"
  ELSE IF KeyLine(i).key \in {<<"HostName">>, <<"hostname">>} THEN "hostName"
  ELSE KeywordField(KeyLine(i).key)
\* The lines as a table: the field each assigns and its value.
LineTable ==
  [i \in 1..Len(ParsedLines) |->
     [field |-> FieldOfLine(i),
      value |-> IF IsKeyLine(i) THEN KeyLine(i).value ELSE <<>>]]
\* In the table t: the k-th Host line, and the lines of its block (up to the
\* next Host line) that assign the field f.
NthHostLine(t, k) ==
  CHOOSE i \in DOMAIN t :
    /\ t[i].field = "host"
    /\ Cardinality({j \in 1..i - 1 : t[j].field = "host"}) = k - 1
FieldLines(t, k, f) ==
  {i \in DOMAIN t :
     /\ t[i].field = f
     /\ NthHostLine(t, k) < i
     /\ \A j \in NthHostLine(t, k) + 1..i : t[j].field # "host"}

\* C23: parseSshConfigOutput returns one entry per Host line, in document
\* order, with the value of that line as host; each other field of an entry is
\* the value of the last line of its block with that field's key, and unset if
\* there is none.  So blank lines, comment lines, unrecognized keys and the key
\* lines in front of the first Host line leave no trace, and a text without a
\* Host line gives the empty list.
C23_EntryPerHostLine ==
  LET t == LineTable
  IN  /\ Len(psOut) = Cardinality({i \in DOMAIN t : t[i].field = "host"})
      /\ \A k \in 1..Len(psOut) :
           /\ psOut[k].host = t[NthHostLine(t, k)].value
           /\ \A n \in 1..Len(OptionalFields) :
                LET lines == FieldLines(t, k, OptionalFields[n][1])
                IN  psOut[k][OptionalFields[n][1]] =
                      IF lines = {} THEN <<>> ELSE t[Max(lines)].value

\* A text of three lines was parsed: a HostName line in front of the first Host
\* line, and two Host lines, the second in lower case; two entries came back in
\* that order, both without HostName.
C23_Witness ==
  /\ Len(ParsedLines) = 3
  /\ IsKeyLine(1) /\ KeyLine(1).key = <<"HostName">>
  /\ HostLines = {2, 3} /\ KeyLine(3).key = <<"host">>
  /\ Len(psOut) = 2 /\ psOut[1].host = <<"a">> /\ psOut[2].host = <<"b">>
  /\ psOut[1].hostName = <<>>

\* A text with a comment line, a blank line and an unrecognized key, and no
\* Host line, gave the empty list.
C23_WitnessEmpty ==
  /\ Len(ParsedLines) = 3 /\ IsCommentLine(1) /\ IsBlankLine(2) /\ IsKeyLine(3)
  /\ HostLines = {} /\ psOut = <<>>

(***************************************************************************)
(* Claims about the connection health monitor, checked under SpecHealth.   *)
(***************************************************************************)
\* C12: the monitor raises the lost-connection prompt, with its timer stopped,
\* exactly when the count of consecutive failed probes reaches the threshold 3:
\* a failed probe that raises the prompt is the third in a row, one that does
\* not leaves the count below 3, and a successful probe resets the count to 0.
C12_PromptAtThreshold ==
  /\ hmEvent = "prompt" => consecutiveFailures = maxFailures /\ ~timer
  /\ hmEvent = "fail" => consecutiveFailures < maxFailures
  /\ hmEvent = "ok" => consecutiveFailures = 0

\* C13: once the threshold has been reached, no probe starts until the user
\* selects Reconnect; Reconnect resets the count to 0 and re-arms the timer;
\* Disconnect or dismissal, with no Reconnect selected since the threshold was
\* reached, leaves the timer disarmed.
C13_NoProbeUntilReconnect ==
  /\ hmEvent = "tick" => ~awaitingUser
  /\ hmEvent = "reconnect" => consecutiveFailures = 0 /\ timer
  /\ (hmEvent \in {"disconnect", "dismiss"} /\ awaitingUser) => ~timer

\* C38: at most one lost-connection prompt is outstanding at any time and the
\* count of consecutive failures never exceeds the threshold.
C38_OnePromptCountAtMostThreshold ==
  prompts <= 1 /\ consecutiveFailures <= maxFailures

\* What does hold: a prompt is raised by a failed probe only, with the count
\* at the threshold or above it, and the count grows by one with each failed
\* probe and by nothing else.
PromptsOnlyAtOrAboveThreshold ==
  [][/\ prompts' > prompts => ProbeFails /\ consecutiveFailures' >= maxFailures
     /\ consecutiveFailures' > consecutiveFailures =>
          ProbeFails /\ consecutiveFailures' = consecutiveFailures + 1]_vars

\* C39: the live probe intervals are the one the timer field holds, if any;
\* after dispose() no interval is live and no probe starts.
C39_OneIntervalNoneAfterDispose ==
  /\ liveIntervals = (IF timer THEN 1 ELSE 0)
  /\ disposed => liveIntervals = 0 /\ hmEvent # "tick"

\* What does hold: dispose() and the threshold clear the interval the timer
\* field holds, and after dispose() an interval is armed by Reconnect only.
IntervalsClearedWhenHeld ==
  [][/\ Dispose \/ (ProbeFails /\ prompts' > prompts) =>
          ~timer' /\ (timer => liveIntervals' = liveIntervals - 1)
     /\ disposed /\ liveIntervals' > liveIntervals => Reconnect]_vars

(***************************************************************************)
(* Claims about findStaleCodespaces, checked under SpecStale.              *)
(***************************************************************************)
\* The positions of the argument whose workspace is Shutdown and was last used
\* earlier than now minus thresholdDays days.
StalePositions ==
  {i \in 1..Len(staleCall.codespaces) :
     /\ staleCall.codespaces[i].state = "Shutdown"
     /\ staleCall.codespaces[i].lastUsedAt.kind = "iso"
     /\ staleCall.codespaces[i].lastUsedAt.ms
          < staleCall.now - staleCall.thresholdDays * DayMs}

\* C14: findStaleCodespaces returns exactly the workspaces of its argument that
\* are Shutdown and were last used earlier than now minus thresholdDays days,
\* in the order of the argument, and leaves the argument as it was; a workspace
\* in another state is never returned.
C14_StaleExactlyOldShutdown ==
  staleCall.done =>
    /\ Len(staleCall.result) = Cardinality(StalePositions)
    /\ \A j \in 1..Len(staleCall.result) :
         /\ staleCall.result[j].name \in StalePositions
         /\ staleCall.result[j] = staleCall.codespaces[staleCall.result[j].name]
         /\ staleCall.result[j].state = "Shutdown"
         /\ \A k \in 1..(j - 1) : staleCall.result[k].name < staleCall.result[j].name
    /\ staleCall.after = staleCall.codespaces

\* C14 witness: of an old Available workspace followed by an old Shutdown one,
\* only the second is returned.
C14_Witness ==
  /\ staleCall.done
  /\ Len(staleCall.codespaces) = 2
  /\ staleCall.codespaces[1].state = "Available"
  /\ staleCall.codespaces[1].lastUsedAt = [kind |-> "iso", ms |-> staleCall.now - MaxDays * DayMs - 1]
  /\ staleCall.thresholdDays = 1
  /\ Len(staleCall.result) = 1
  /\ staleCall.result[1].name = 2

(***************************************************************************)
(* Claims about the read view, checked under SpecView.                     *)
(***************************************************************************)
\* The workspaces of the cache that pass the filters of the last call.
Passes(cs) ==
  /\ viewCall.filterState = "running" => cs.state = "Available"
  /\ viewCall.filterState = "stopped" => cs.state = "Shutdown"
  /\ viewCall.filterText # "" => cs.repository = viewCall.filterText
FilteredNames ==
  {i \in 1..Len(viewCall.codespaces) : Passes(viewCall.codespaces[i])}

IsRunning(cs) == cs.state = "Available"
GroupHasRunning(g) == \E i \in 1..Len(g.codespaces) : IsRunning(g.codespaces[i])
AlphabeticallyBefore(x, y) ==
  \E i, j \in 1..Len(GroupNames) : i < j /\ GroupNames[i] = x /\ GroupNames[j] = y

\* The result groups the filtered workspaces by repository and orders the
\* workspaces and the groups as stated.
GroupedAndOrdered ==
  LET groups == viewCall.result.items IN
  /\ viewCall.result.kind = "groups"
  \* every filtered workspace is in exactly one place, in the group of its repository
  /\ \A n \in FilteredNames :
       Cardinality({ki \in (1..Len(groups)) \X (1..MaxView + 1) :
                      /\ ki[2] <= Len(groups[ki[1]].codespaces)
                      /\ groups[ki[1]].codespaces[ki[2]] = viewCall.codespaces[n]}) = 1
  /\ \A k \in 1..Len(groups) :
       /\ groups[k].codespaces # <<>>
       /\ \A i \in 1..Len(groups[k].codespaces) :
            /\ groups[k].codespaces[i].name \in FilteredNames
            /\ RepoOf(groups[k].codespaces[i]) = groups[k].repository
       /\ \A l \in 1..Len(groups) : l # k => groups[l].repository # groups[k].repository
  \* within a group
  /\ \A k \in 1..Len(groups) : \A i, j \in 1..Len(groups[k].codespaces) :
       i < j =>
         LET a == groups[k].codespaces[i]
             b == groups[k].codespaces[j]
         IN  /\ IsRunning(b) => IsRunning(a)
             /\ (IsRunning(a) <=> IsRunning(b)) => TimeOf(a) >= TimeOf(b)
  \* between groups
  /\ \A k, l \in 1..Len(groups) :
       k < l =>
         /\ GroupHasRunning(groups[l]) => GroupHasRunning(groups[k])
         /\ (GroupHasRunning(groups[k]) <=> GroupHasRunning(groups[l]))
              => AlphabeticallyBefore(groups[k].repository, groups[l].repository)

\* The last call showed workspaces (not a placeholder).
ShowsWorkspaces == viewCall.done /\ viewCall.result.kind \in {"groups", "flat"}

LastSeen == IF seen = <<>> THEN "none" ELSE seen[Len(seen)]

\* The last k results of getCodespace, oldest first.
Latest(k) == IF Len(seen) < k THEN <<>> ELSE SubSeq(seen, Len(seen) - k + 1, Len(seen))

Ended(o) == pc = "done" /\ outcome = o

\* What C9 says of every getCodespace result but a Failed one.
PollWaitOutcomes ==
  /\ Latest(3) = <<"Shutdown", "Starting", "Available">> => Ended("ok")
  /\ pc = "wait_fetch" => elapsed < TimeoutMs
  /\ (/\ pc = "done" /\ observer = "waitForState" /\ outcome # "tool_error"
      /\ LastSeen \notin {"Available", "Failed", NotFound})
     => outcome = "timeout" /\ elapsed >= TimeoutMs
  /\ outcome = "timeout" => pc = "done" /\ LastSeen \in {"Shutdown", "Starting"}

\* C9 as stated: when the results of getCodespace go Shutdown, Starting,
\* Available the run ends without error; the first Failed result ends the run
\* with the failed-state error and no further poll; waitForState starts no poll
\* once timeoutMs has elapsed, and a run whose waitForState saw neither
\* Available nor Failed (nor lost the workspace or a tool invocation) ends with
\* the timeout error, timeoutMs or more after the wait began.
C9_FailedEndsAtFirstObservation ==
  /\ PollWaitOutcomes
  /\ LastSeen = "Failed" => Ended("failed_state")

\* C9, amended: as above, but the Failed result that ends the run there and then
\* is one returned to the re-fetch or to waitForState; a Failed returned to
\* waitForStateChange only ends that short wait, and waitForState polls again.
C9_PollWait ==
  /\ PollWaitOutcomes
  /\ (LastSeen = "Failed" /\ observer # "waitForStateChange") => Ended("failed_state")
  /\ (LastSeen = "Failed" /\ observer = "waitForStateChange") =>
       pc = "wait_fetch" \/ Ended("tool_error")

\* C9 witness: the workspace was started and stayed Starting until waitForState
\* gave up, timeoutMs after it began.
C9_Witness ==
  /\ Ended("timeout")
  /\ commands = <<"start">>
  /\ Latest(2) = <<"Starting", "Starting">>
  /\ elapsed >= TimeoutMs

\* C10: the start command is issued iff the re-fetch found the workspace
\* Shutdown; a re-fetch that finds no workspace, or finds it Failed or
\* Available, ends the run (not-found, failed-state, success) with no command
\* issued, no refresh requested and no further getCodespace call.
C10_StartOnlyWhenShutdown ==
  /\ ("start" \in {commands[i] : i \in 1..Len(commands)}) <=> (fresh = "Shutdown")
  /\ Len(commands) <= 1
  /\ fresh \in {NotFound, "Failed", "Available"} =>
       /\ pc = "done"
       /\ outcome = (CASE fresh = NotFound -> "not_found"
                       [] fresh = "Failed" -> "failed_state"
                       [] OTHER -> "ok")
       /\ commands = <<>>
       /\ refreshes = 0
       /\ seen = <<fresh>>

\* C10 witness: the workspace was found Shutdown, started, and became Available.
C10_Witness ==
  /\ fresh = "Shutdown"
  /\ commands = <<"start">>
  /\ refreshes = 1
  /\ Ended("ok")

(***************************************************************************)
(* Claims about connect, checked under SpecConnect.                        *)
(***************************************************************************)
\* The steps of a connect that reaches the hand-off, in their order.
ConnectSteps == <<"available", "parsed", "persisted", "probed", "hand_off">>
HandedOff == \E i \in 1..Len(conn.steps) : conn.steps[i] = "hand_off"

\* C11: connect executes vscode.openFolder only after, in this order, the
\* workspace was observed Available, the connection parameters were fetched
\* and parsed to at least one entry, that entry was persisted by setEntry and
\* the readiness probe succeeded; when one of these steps fails connect raises
\* an error and does not hand off.
C11_HandOffAfterAllSteps ==
  /\ Len(conn.steps) <= Len(ConnectSteps)
  /\ conn.steps = SubSeq(ConnectSteps, 1, Len(conn.steps))
  /\ Len(conn.steps) >= 1 => Ended("ok") /\ LastSeen = "Available"
  /\ Len(conn.steps) >= 2 => conn.entry.host # <<>>
  /\ Len(conn.steps) >= 3 =>
       /\ lastOp = [kind |-> "setEntry", entry |-> conn.entry, threw |-> FALSE]
       /\ file = UpdateManagedSection(prevFile, <<conn.entry>>)
       /\ HasMarkers(file)
  /\ Len(conn.steps) >= 4 => conn.attempt \in 1..conn.retries
  /\ conn.pc \in {"open_folder", "done"} => HandedOff
  /\ conn.pc = "failed" <=> conn.error # "none"
  /\ (conn.pc # "ensure" /\ pc = "done" /\ outcome # "ok") =>
       conn.error = outcome /\ conn.steps = <<>>
  /\ conn.error \in {"tool_error", "no_entries"} /\ Len(conn.steps) >= 1 =>
       conn.steps = <<"available">>
  /\ lastOp.threw => conn.error = "invalid_value" /\ conn.steps = <<"available", "parsed">>
  /\ conn.error = "not_ready" =>
       conn.steps = <<"available", "parsed", "persisted">> /\ conn.attempt = conn.retries
  /\ (conn.error # "none" /\ HandedOff) => conn.error = "open_failed"

\* C11 witness: a connect that started the workspace, generated the keys,
\* probed twice and handed off.
C11_Witness ==
  /\ conn.pc = "done" /\ HandedOff
  /\ commands = <<"start">>
  /\ conn.entry.identityFile # <<>>
  /\ conn.attempt = 2

(***************************************************************************)
(* Claims about waitForSshReady, checked under SpecConnect: conn.retries   *)
(* is its maxAttempts and conn.attempt the number of probes it has run.    *)
(***************************************************************************)
\* waitForSshReady has returned.
ProbeReturned == conn.pc \in {"refresh_hosts", "open_folder", "done"}
\* waitForSshReady has been entered.
ProbeEntered ==
  conn.pc \in {"probe", "probe_sleep"} \/ ProbeReturned \/ conn.error = "not_ready"

\* C32: waitForSshReady runs at most maxAttempts probes; it returns at the
\* first probe that succeeds and runs no other; it sleeps only after a failed
\* probe that is not the last one; and it raises its error exactly when
\* maxAttempts probes have run and all have failed.
C32_ProbesBounded ==
  /\ [](/\ conn.attempt <= conn.retries
        /\ conn.pc \in {"probe", "probe_sleep"} => 1 <= conn.attempt
        /\ conn.pc = "probe_sleep" => conn.attempt < conn.retries
        /\ ProbeReturned => 1 <= conn.attempt
        /\ conn.error = "not_ready" => conn.attempt = conn.retries)
  /\ [][/\ conn.pc = "probe" /\ conn' # conn =>
             \/ conn' = [conn EXCEPT !.pc = "refresh_hosts",
                                     !.steps = Append(@, "probed")]
             \/ conn.attempt < conn.retries
                  /\ conn' = [conn EXCEPT !.pc = "probe_sleep"]
             \/ conn.attempt = conn.retries
                  /\ conn' = [conn EXCEPT !.pc = "failed", !.error = "not_ready"]
        /\ conn.pc = "probe_sleep" /\ conn' # conn =>
             conn' = [conn EXCEPT !.pc = "probe", !.attempt = @ + 1]
        /\ conn'.pc = "probe_sleep" /\ conn.pc # "probe_sleep" => conn.pc = "probe"
        /\ ProbeReturned \/ conn.error = "not_ready" =>
             conn'.attempt = conn.attempt
        /\ conn'.error = "not_ready" /\ conn.error # "not_ready" =>
             \/ conn.pc = "probe" /\ conn.attempt = conn.retries
             \/ conn.pc \in {"ssh_config", "keys"} /\ conn.retries = 0]_vars

\* With maxAttempts = 2, both probes failed, with one sleep between them, and
\* waitForSshReady raised its error.
C32_Witness ==
  conn.error = "not_ready" /\ conn.retries = 2 /\ conn.attempt = 2

\* With maxAttempts = 2, the first probe succeeded and waitForSshReady
\* returned after that one probe.
C32_WitnessFirst ==
  ProbeReturned /\ conn.retries = 2 /\ conn.attempt = 1

(***************************************************************************)
(* Claims about start and stop, checked under SpecLifecycle.               *)
(***************************************************************************)
\* What C20 says of the operation op, whose target is the state target and
\* whose command is command, once it was called.
NoOpOnlyIn(op, target, command) ==
  call.op = op =>
    /\ call.state = target => Ended("notice") /\ commands = <<>> /\ seen = <<>>
    /\ call.state # target =>
         /\ commands = <<command>>
         /\ Ended("ok") => LastSeen = target

\* C20: start issues no command and shows a notice when the workspace is
\* already running (Available), and else issues the start command and
\* poll-waits until Available; stop issues no command and shows a notice when
\* the workspace is already stopped (Shutdown), and else issues the stop
\* command and poll-waits until Shutdown.
C20_NoOpOnlyInTargetState ==
  /\ NoOpOnlyIn("start", "Available", "start")
  /\ NoOpOnlyIn("stop", "Shutdown", "stop")

(***************************************************************************)
(* Claims about rebuild and deleteCodespace, checked under SpecConfirm.    *)
(***************************************************************************)
\* The remote commands of the two operations, as `commands` records them.
RemoteCommands == {"rebuild", "rebuild --full", "delete"}
CommandIssued == \E i \in 1..Len(commands) : commands[i] \in RemoteCommands

\* C21: rebuild(ws, full) and deleteCodespace(ws) issue their remote command
\* only after the user confirmed the modal prompt: before the answer no command
\* is issued and no tool call made; an issued command is the one of the
\* operation (with --full exactly when full) and the answer was the button's
\* label; after a dismissal the operation has returned with no command issued
\* and no tool call made.
C21_CommandOnlyAfterConfirmation ==
  call.op \in {"rebuild", "delete"} =>
    /\ call.confirmed = "none" => pc = "confirm" /\ commands = <<>> /\ seen = <<>>
    /\ CommandIssued =>
         /\ call.confirmed = ConfirmLabel
         /\ commands = << IF call.op = "rebuild" /\ call.full
                          THEN "rebuild --full" ELSE call.op >>
    /\ call.confirmed = Undefined =>
         /\ pc = "done" /\ outcome = "declined"
         /\ commands = <<>> /\ seen = <<>>
    /\ call.confirmed = ConfirmLabel => CommandIssued

\* Both cases happen: a full rebuild that was confirmed has issued its command
\* and re-read the state, and a delete was dismissed.
C21_Witness ==
  /\ call.op = "rebuild" /\ call.full /\ call.confirmed = "Rebuild"
  /\ commands = <<"rebuild --full">> /\ seen # <<>> /\ pc = "done"

C21_WitnessDismissed ==
  call.op = "delete" /\ call.confirmed = Undefined /\ pc = "done"

(***************************************************************************)
(* Claims about the refresh request of start, stop and                     *)
(* ensureCodespaceAvailable, checked under SpecCommands.                   *)
(***************************************************************************)
\* The run has issued its start or stop command.
Commanded == commands # <<>>
\* The poll-wait for the terminal state (waitForState) has begun.
PollWaitBegun == pc \in {"wait_fetch", "wait_sleep"} \/ observer = "waitForState"

\* C29: in start, stop and the start branch of ensureCodespaceAvailable, after
\* the command the state is re-read by waitForStateChange, which starts no
\* read once 10 s have elapsed, and then a cache refresh is requested exactly
\* once, before the poll-wait begins: none is requested before the command
\* returned or while waitForStateChange runs, and once the poll-wait has begun
\* after a command exactly one has been requested, after at least one re-read.
C29_RefreshOnceBeforePollWait ==
  /\ refreshes <= 1
  /\ ~Commanded => refreshes = 0
  /\ pc \in {"start_cmd", "stop_cmd", "change_fetch", "change_sleep"} =>
       Commanded /\ refreshes = 0
  /\ pc = "change_fetch" => elapsed < MaxWaitMs
  /\ Commanded /\ PollWaitBegun => refreshes = 1
  /\ refreshes = 1 => Commanded /\ observer # "none" /\ seen # <<>>

\* A stop has issued its command, re-read the state, requested the refresh and
\* entered the poll-wait.
C29_Witness ==
  /\ call.op = "stop" /\ commands = <<"stop">>
  /\ refreshes = 1 /\ pc = "wait_fetch" /\ observer = "waitForStateChange"

(***************************************************************************)
(* Claims about the cancellation of waitForState, checked under SpecCancel.*)
(***************************************************************************)
\* The wait has ended otherwise than by the cancelled error: through the call
\* that was in flight when cancellation was requested, or through the loop
\* guard failing after the sleep in which or before which it was requested.
EndedByInFlightCall ==
  /\ token.at = "wait_fetch"
  /\ outcome \in {"ok", "not_found", "failed_state", "tool_error"}
EndedByTimeout == outcome = "timeout" /\ ~WaitGuard(elapsed)

\* C22 as stated: once cancellation has been requested during the wait, the
\* wait ends by raising the cancelled error and by nothing else.
C22_CancelledEndsCancelled ==
  call.op = "waitForState" /\ token.isCancellationRequested /\ pc = "done" =>
    outcome = "cancelled"

\* C22, amended: once cancellation has been requested, no step of the wait
\* starts a getCodespace call (the only one awaited then is the one that was in
\* flight at the request), and the wait ends with the cancelled error at the
\* next evaluation of the token unless that call in flight ends it first or the
\* loop guard fails first; the cancelled error is raised only on a request.
C22_NoPollAfterCancellation ==
  /\ [](call.op = "waitForState" =>
          /\ token.isCancellationRequested /\ pc = "wait_fetch" =>
               token.at = "wait_fetch"
          /\ token.isCancellationRequested /\ pc = "done" =>
               outcome = "cancelled" \/ EndedByInFlightCall \/ EndedByTimeout
          /\ outcome = "cancelled" => token.isCancellationRequested)
  /\ [][call.op = "waitForState" /\ token.isCancellationRequested =>
          /\ pc # "wait_fetch" => pc' # "wait_fetch"
          /\ pc = "wait_sleep" /\ WaitGuard(elapsed + PollIntervalMs) =>
               pc' = "done" /\ outcome' = "cancelled"]_vars

\* Cancellation was requested during a sleep of the wait and the wait ended
\* with the cancelled error, long before the timeout.
C22_Witness ==
  /\ call.op = "waitForState" /\ token.at = "wait_sleep"
  /\ pc = "done" /\ outcome = "cancelled" /\ elapsed < TimeoutMs - PollIntervalMs

(***************************************************************************)
(* Claims about the errors of waitForState, checked under SpecCancel.      *)
(***************************************************************************)
\* waitForState has thrown one of its own errors.
WaitThrew == call.op = "waitForState" /\ pc = "done" /\ outcome \in WaitErrors

\* C34: the error with which waitForState ends on cancellation, on timeout,
\* on state Failed and on a workspace that disappeared has a kind that none of
\* the other three outcomes has.
C34_WaitErrorsDifferByKind ==
  WaitThrew =>
    \A o \in WaitErrors \ {outcome} :
      WaitForStateError(o).type # WaitForStateError(outcome).type

\* What does hold: the four errors differ by their message text.
WaitErrorsDifferByMessage ==
  WaitThrew =>
    /\ WaitForStateError(outcome).type \in GhCliErrorTypes
    /\ \A o \in WaitErrors \ {outcome} :
         WaitForStateError(o).message # WaitForStateError(outcome).message

(***************************************************************************)
(* Claims about the termination of the orchestrator's operations, checked  *)
(* under SpecTerminate.                                                     *)
(***************************************************************************)
\* How long one getCodespace call may take when the ends of the waits are at
\* stake: a duration that is no multiple of a poll interval is among them.
FetchMs == GetCodespaceMs \cup {1000}
MaxFetchMs == Max(FetchMs)

\* An operation is running: it awaits a tool invocation or a sleep, not the user.
Running == pc \notin {"idle", "confirm", "done"}

\* rebuild never enters waitForState: it returns when waitForStateChange ends,
\* whatever state was seen last.
RebuildDoesNotWait == call.op = "rebuild" => pc \notin {"wait_fetch", "wait_sleep"}

\* C31 as stated: every operation that runs ends; waitForState ends no later
\* than timeoutMs plus one state fetch after it began, waitForStateChange no
\* later than maxWaitMs plus one state fetch; rebuild does not wait for
\* Available.
C31_EndsWithinTimeoutPlusFetch ==
  /\ [](pc = "done" /\ outcome = "timeout" => elapsed <= TimeoutMs + MaxFetchMs)
  /\ [][pc = "change_sleep" /\ pc' # "change_fetch" =>
          elapsed + ChangePollIntervalMs <= MaxWaitMs + MaxFetchMs]_vars
  /\ []RebuildDoesNotWait
  /\ (Running ~> pc = "done")

\* C31, amended: every operation that runs ends; each wait issues a state
\* fetch only before its deadline, so that it ends before the deadline plus
\* one state fetch plus one sleep of its poll interval; rebuild does not wait
\* for Available.
C31_EndsWithinTimeoutPlusFetchAndSleep ==
  /\ [](/\ pc = "wait_fetch" => elapsed < TimeoutMs
        /\ pc = "wait_sleep" => elapsed < TimeoutMs + MaxFetchMs
        /\ pc = "done" /\ outcome = "timeout" =>
             /\ TimeoutMs <= elapsed
             /\ elapsed < TimeoutMs + MaxFetchMs + PollIntervalMs
        /\ pc = "change_fetch" => elapsed < MaxWaitMs
        /\ pc = "change_sleep" => elapsed < MaxWaitMs + MaxFetchMs)
  /\ [][/\ pc = "wait_sleep" /\ pc' # pc => elapsed' = elapsed + PollIntervalMs
        /\ pc = "change_sleep" /\ pc' # "change_fetch" =>
             elapsed + ChangePollIntervalMs < MaxWaitMs + MaxFetchMs
                                               + ChangePollIntervalMs]_vars
  /\ []RebuildDoesNotWait
  /\ (Running ~> pc = "done")

\* waitForState ran into its timeout later than timeoutMs plus the longest
\* state fetch after it began.
C31_Witness ==
  pc = "done" /\ outcome = "timeout" /\ elapsed > TimeoutMs + MaxFetchMs

\* A rebuild returned while the workspace was seen Rebuilding or Starting last.
C31_WitnessRebuild ==
  /\ call.op = "rebuild" /\ pc = "done" /\ outcome = "ok"
  /\ seen # <<>> /\ LastSeen # "Available"

(***************************************************************************)
(* Claims about the Directory Client, checked under SpecClient.            *)
(***************************************************************************)
\* C33: every call of an operation that fails throws a GhCliError whose type
\* is one of the five of GhCliErrorType.
C33_FailuresAreTyped ==
  client.result.thrown =>
    client.result.ghCliError /\ client.result.type \in GhCliErrorTypes

\* What does hold: a missing executable, a rejected name and an unreadable
\* listing are thrown as GhCliError of type NOT_INSTALLED, COMMAND_FAILED and
\* PARSE_ERROR; any other rejection of execFile is thrown as it is.
FailuresTypedUnlessExecRejects ==
  /\ client.result.thrown /\ ~client.result.ghCliError =>
       client.exec \notin {"ok", "ENOENT"}
  /\ client.result.ghCliError => client.result.type \in GhCliErrorTypes

(***************************************************************************)
(* Claims about the synchronization engine, checked under SpecSync.        *)
(***************************************************************************)
\* A snapshot is published: a reload has completed without error and none is
\* in flight.
Published == InFlight = {} /\ ~loading /\ error = "null"

\* C1: whenever a snapshot is published, a transitional workspace in the cache
\* means the fast-poll timer is armed and the background timer is not, and no
\* transitional workspace means the fast-poll timer is not armed and the
\* background timer is.
C1_TransitionalPolling ==
  Published =>
    IF HasTransitional(codespaces)
    THEN pollTimer /\ ~backgroundRefreshTimer
    ELSE ~pollTimer /\ backgroundRefreshTimer

\* C2: the fast-poll timer and the background timer are never both armed.
C2_TimersExclusive == ~(pollTimer /\ backgroundRefreshTimer)

\* C3: at most one reload (loadCodespacesInternal) is in flight at any time.
C3_OneReloadInFlight == Cardinality(InFlight) <= 1

\* C4: the collection a reader finds in this.codespaces is never one whose
\* reload still has enrichment fetches to settle (or to issue): no activation
\* stands at one of its Promise.all joins while its objects are the cached ones.
C4_ReadersSeeEnriched ==
  \A r \in Slots : ~(reloads[r].pc \in {"running", "stopped"} /\ reloads[r].shared)

\* The step ends activation r at the prerequisite check with a readiness
\* error: the catch block, the other way to end there, records "thrown".
PrereqFailed(r) ==
  reloads[r].pc = "prereq" /\ reloads'[r].pc = "free" /\ error' # "thrown"

\* Activation r ends in this step.
Completes(r) == reloads[r].pc # "free" /\ reloads'[r].pc = "free"
\* Activation r starts in this step, called by `caller`.
Starts(r, caller) ==
  reloads[r].pc = "free" /\ reloads'[r].pc = "prereq" /\ reloads'[r].caller = caller

\* C26 as stated: while the fast-poll timer is armed and a cached workspace is
\* transitional a tick starts a reload, and when a reload started by a tick of
\* the fast-poll timer ends with a collection without transitional workspace,
\* the fast-poll timer is disarmed by that step.
C26_PollTimerDisarmsItself ==
  [][/\ PollTick /\ HasTransitional(codespaces) =>
          \E r \in Slots : Starts(r, "pollTimer")
     /\ \A r \in Slots :
          /\ Completes(r) /\ reloads[r].caller = "pollTimer"
          /\ error' = "null" /\ ~HasTransitional(codespaces')
          => ~pollTimer' /\ ~isPolling' /\ livePoll' = 0]_vars

\* What holds: the fast-poll timer is disarmed by an explicit refresh and by
\* nothing else, and while it is armed every tick starts a reload.
PollTimerArmedUntilRefresh ==
  [][/\ pollTimer /\ ~pollTimer' => \E r \in Slots : Starts(r, "loadCodespaces")
     /\ PollTick /\ pollTimer => \E r \in Slots : Starts(r, "pollTimer")]_vars

\* Activation r takes this step (it resumes from an await).
Acts(r) ==
  /\ reloads[r].pc # "free"
  /\ reloads'[r].pc # reloads[r].pc \/ reloads'[r].pending # reloads[r].pending
\* An explicit refresh (loadCodespaces) has started and not completed.
RefreshInFlight == \E e \in Slots : reloads[e].pc # "free" /\ reloads[e].explicit

\* C27 as stated: while an explicit refresh is in flight no reload started by a
\* timer tick writes the cache, the error or the readiness flags; and the
\* refresh, when it ends after its enrichment, decides on re-arming the
\* fast-poll timer with the collection it wrote itself still the cached one.
C27_RefreshExcludesTimerReloads ==
  [][/\ RefreshInFlight =>
          \A r \in Slots :
            Acts(r) /\ ~reloads[r].explicit =>
              UNCHANGED <<codespaces, error, ghInstalled, authenticated,
                          hasCodespaceScope>>
     /\ \A e \in Slots :
          /\ Completes(e) /\ reloads[e].explicit
          /\ reloads[e].pc \in {"running", "stopped"}
          => reloads[e].shared]_vars


\* C35: the live fast-poll intervals are the one held in pollTimer, if any,
\* and the live background intervals the one held in backgroundRefreshTimer,
\* if any: never two of a kind, and never one that no field refers to.
C35_OneIntervalPerTimer ==
  /\ livePoll = (IF pollTimer THEN 1 ELSE 0)
  /\ liveBackground = (IF backgroundRefreshTimer THEN 1 ELSE 0)
  /\ pollTimer = isPolling

\* C35 witness: both timers are armed, each by one live interval, and a tick
\* of each has a reload in flight.
C35_Witness ==
  /\ pollTimer /\ livePoll = 1 /\ backgroundRefreshTimer /\ liveBackground = 1
  /\ \E r, q \in Slots :
       /\ reloads[r].pc # "free" /\ reloads[r].caller = "pollTimer"
       /\ reloads[q].pc # "free" /\ reloads[q].caller = "backgroundRefreshTimer"

\* The readiness flags as a reload that ended with this error has set them.
FlagsOf(e) ==
  [ghInstalled |-> e # "NOT_INSTALLED",
   authenticated |-> e \notin {"NOT_INSTALLED", "NOT_AUTHENTICATED"},
   hasCodespaceScope |-> e \notin {"NOT_INSTALLED", "NOT_AUTHENTICATED",
                                   "SCOPE_REQUIRED"}]
\* The readiness flags the engine holds.
Flags ==
  [ghInstalled |-> ghInstalled, authenticated |-> authenticated,
   hasCodespaceScope |-> hasCodespaceScope]

\* C36: while no reload is in flight, the collection, the error and the
\* readiness flags are those one reload has left: with error = null the flags
\* of a passed prerequisite check, with a readiness error the flags of that
\* failure and the empty collection, with a thrown error the empty collection;
\* and the reload that ends last with error = null ends with the collection it
\* listed itself as the cached one.
C36_StateFromOneReload ==
  /\ [](InFlight = {} =>
          /\ error \in PrereqResults \cup {"null"} => Flags = FlagsOf(error)
          /\ error # "null" => codespaces = Empty)
  /\ [][\A r \in Slots :
          /\ Completes(r) /\ InFlight' = {} /\ error' = "null"
          /\ reloads[r].pc \in {"running", "stopped"}
          => reloads[r].shared]_vars

\* What does hold: a reload that ends in failure leaves the empty collection
\* and its own error, and a failed prerequisite check its own flags, whatever
\* other reloads are in flight.
FailedReloadLeavesItsOwn ==
  [][\A r \in Slots :
       Completes(r) /\ error' # "null" =>
         /\ codespaces' = Empty
         /\ PrereqFailed(r) => Flags' = FlagsOf(error')]_vars

\* The workspace n is in the cache before this step and not after it.
Removed(n) == codespaces[n] # NoCs /\ codespaces'[n] = NoCs
\* Activation r stores the listing it fetched (lines 117-123) in this step, and
\* does not end in the catch block.
ListApplied(r) ==
  /\ reloads[r].pc = "list" /\ Acts(r)
  /\ ~(Completes(r) /\ error' # "null")
\* Activation r ends in failure in this step: the prerequisite check failed
\* (lines 103-112) or the catch block ran (160-165); the cache is emptied.
ReloadFailed(r) == Completes(r) /\ error' # "null" /\ codespaces' = Empty

\* C28 as stated: a workspace is removed from the cache only by a step that
\* applies a successfully fetched listing, in which it is absent.
C28_RemovedOnlyByListing ==
  [][\A n \in Names : Removed(n) => \E r \in Slots : ListApplied(r)]_vars

\* C28, amended: a workspace is removed from the cache only by a step that
\* applies a successfully fetched listing in which it is absent, or by a reload
\* that ends in failure and empties the whole cache; no call of refresh or
\* setVisible, no tick and no settled enrichment fetch removes one.
C28_RemovedByListingOrFailure ==
  [][\A n \in Names :
       Removed(n) =>
         \E r \in Slots :
           \/ ListApplied(r) /\ \E l \in Listings :
                                  l[n] = NotListed /\ codespaces' = Fresh(l)
           \/ ReloadFailed(r)]_vars

\* A workspace has been removed by a listing: an activation still awaits the
\* enrichment of a workspace it listed, and the cache, written since by another
\* activation's listing, holds other workspaces and not that one.
C28_Witness ==
  \E r \in Slots, n \in Names :
    /\ reloads[r].pc \in {"running", "stopped"} /\ n \in reloads[r].pending
    /\ ~reloads[r].shared
    /\ codespaces[n] = NoCs
    /\ error = "null" /\ \E m \in Names : codespaces[m] # NoCs

\* C17: a reload whose prerequisite check fails empties the cache, records the
\* readiness flags and the typed error of the failure, clears the loading flag
\* and ends there: it fetches no listing and no enrichment.
C17_PrereqFailureShortCircuits ==
  [][\A r \in Slots :
       PrereqFailed(r) =>
         /\ \A n \in Names : codespaces'[n].state = NotListed
         /\ error' \in {"NOT_INSTALLED", "NOT_AUTHENTICATED", "SCOPE_REQUIRED"}
         /\ ghInstalled' = (error' # "NOT_INSTALLED")
         /\ authenticated' = (error' = "SCOPE_REQUIRED")
         /\ ~hasCodespaceScope'
         /\ ~loading'
         /\ reloads'[r].pending = {}
         /\ \A q \in Slots : q # r => reloads'[q].pc = reloads[q].pc]_vars

\* A reload has ended on a missing scope and none is in flight.
C17_Witness ==
  /\ error = "SCOPE_REQUIRED" /\ ghInstalled /\ authenticated /\ ~hasCodespaceScope
  /\ ~loading /\ InFlight = {}
  /\ \A n \in Names : codespaces[n].state = NotListed

\* The step ends activation r after its listing arrived.
EndsListed(r) ==
  reloads[r].pc \in {"list", "running", "stopped"} /\ reloads'[r].pc = "free"
  /\ error' # "thrown"

\* C18: a reload whose listing arrived completes successfully whatever its
\* idle-timeout and machine-profile fetches do: it ends with no error, and no
\* failure of such a fetch empties the cache or sets the error.
C18_PerItemFailureDegrades ==
  [][\A r \in Slots : EndsListed(r) => error' = "null"]_vars

\* C19: setVisible(true) on a hidden engine starts one reload at once and arms
\* the background timer; setVisible(false) on a visible one disarms it and
\* starts nothing; nothing else arms or disarms it, so the background timer is
\* armed exactly when the engine is visible.
C19_BackgroundTimerIffVisible ==
  /\ [](backgroundRefreshTimer <=> isVisible)
  /\ [](liveBackground = IF isVisible THEN 1 ELSE 0)
  /\ [][/\ (~isVisible /\ isVisible') =>
              /\ loading'
              /\ Cardinality({r \in Slots : reloads'[r].pc # "free"})
                   = Cardinality(InFlight) + 1
              /\ backgroundRefreshTimer'
        /\ (isVisible /\ ~isVisible') =>
              /\ ~backgroundRefreshTimer'
              /\ reloads' = reloads /\ loading' = loading
        /\ isVisible' = isVisible =>
              backgroundRefreshTimer' = backgroundRefreshTimer]_vars

\* The engine became visible: its reload is in flight and the timer is armed.
C19_Witness ==
  isVisible /\ backgroundRefreshTimer /\ loading /\ InFlight # {} /\ liveBackground = 1

(***************************************************************************)
(* Claims about dispose() of the provider, checked under SpecDispose.      *)
(***************************************************************************)
\* C37: once dispose() has been called, neither timer is armed and no
\* interval is live, whatever reload completes afterwards.
C37_NoTimerAfterDispose ==
  providerDisposed =>
    /\ ~pollTimer /\ livePoll = 0
    /\ ~backgroundRefreshTimer /\ liveBackground = 0

\* What does hold: dispose() leaves both timers disarmed, and afterwards the
\* background timer stays disarmed and the fast-poll timer is armed only by
\* the end of an explicit refresh that was in flight.
TimersAfterDispose ==
  /\ [](providerDisposed => ~backgroundRefreshTimer /\ liveBackground = 0)
  /\ [][/\ DisposeProvider => ~pollTimer' /\ livePoll' = 0
        /\ providerDisposed /\ ~pollTimer /\ pollTimer' =>
             \E r \in Slots : Completes(r) /\ reloads[r].explicit]_vars

(***************************************************************************)
(* Claims about the end of a reload, checked under SpecReload.             *)
(***************************************************************************)
\* C40: every reload that refresh() starts ends, whichever way it goes
\* (prerequisite failure, success, thrown error), and the step that ends it
\* leaves loading = FALSE, the statement in front of the notification; so
\* loading does not stay TRUE while a reload is in flight.
C40_RefreshClearsLoading ==
  /\ [][\A r \in Slots : Completes(r) => ~loading']_vars
  /\ \A r \in Slots : (reloads[r].pc # "free") ~> (reloads[r].pc = "free")
  /\ (loading /\ InFlight # {}) ~> ~loading

\* A reload has ended in the catch block: the error is set, loading is
\* cleared and nothing is in flight.
C40_Witness ==
  ~loading /\ InFlight = {} /\ error = "thrown"

\* A reload has ended on a failed prerequisite check.
C40_WitnessPrereq ==
  ~loading /\ InFlight = {} /\ error = "NOT_INSTALLED" /\ ~ghInstalled

\* A reload has ended with a list of workspaces.
C40_WitnessSuccess ==
  /\ ~loading /\ InFlight = {} /\ error = "null"
  /\ ghInstalled /\ authenticated /\ hasCodespaceScope
  /\ \E n \in Names : codespaces[n] # NoCs

(***************************************************************************)
(* Claims about the engine and the remote side, checked under SpecLive.    *)
(***************************************************************************)
\* The cache holds the workspaces the remote side holds, in the same states.
Agrees == \A n \in Names : codespaces[n].state = remote[n]
\* The engine is visible or its fast-poll timer is armed.
Armed == isVisible \/ pollTimer

Init == SshInit /\ WaitInit /\ SyncInit /\ ParseInit /\ HealthInit /\ StaleInit
        /\ ViewInit /\ ConnInit /\ RemoteInit /\ ClientInit

\* The configuration file under setEntry / clearEntries, from any initial content.
SshNext ==
  \/ \E entry \in Entries : SetEntry(entry)
  \/ ClearEntries
  \/ GetManagedHostCall

SpecSsh == Init /\ [][SshNext]_vars

\* The same calls on a file of any content, stray sentinels included.
InitAnyFile ==
  /\ SshAnyInit /\ WaitInit /\ SyncInit /\ ParseInit /\ HealthInit /\ StaleInit
  /\ ViewInit /\ ConnInit /\ RemoteInit /\ ClientInit

SshAnyNext ==
  \/ \E entry \in Entries : SetEntry(entry)
  \/ ClearEntries

SpecSshAny == InitAnyFile /\ [][SshAnyNext]_vars

\* The initial state of the specifications that leave the file alone.
InitNoFile == Init /\ file = <<>>

\* One run of ensureCodespaceAvailable.
WaitNext ==
  \/ EnsureCall
  \/ \E r \in GetCodespaceResults : EnsureFetched(r)
  \/ ToolThrows
  \/ StartReturned
  \/ \E r \in GetCodespaceResults, d \in GetCodespaceMs : ChangeFetched(r, d)
  \/ ChangeSlept
  \/ \E r \in GetCodespaceResults, d \in GetCodespaceMs : WaitFetched(r, d)
  \/ WaitSlept

SpecWait == InitNoFile /\ [][WaitNext]_vars

\* A start or a stop of a workspace, with the tool and the remote side as the
\* environment.
LifecycleNext ==
  \/ \E state \in CallStates : StartCall(state)
  \/ \E state \in CallStates : StopCall(state)
  \/ ToolThrows
  \/ StartReturned
  \/ StopReturned
  \/ \E r \in GetCodespaceResults, d \in GetCodespaceMs : ChangeFetched(r, d)
  \/ ChangeSlept
  \/ \E r \in GetCodespaceResults, d \in GetCodespaceMs : WaitFetched(r, d)
  \/ WaitSlept

SpecLifecycle == InitNoFile /\ [][LifecycleNext]_vars

\* Runs of rebuild and deleteCodespace, with the user, the tool and the remote
\* side as the environment.
ConfirmNext ==
  \/ \E state \in CallStates, full \in BOOLEAN : RebuildCall(state, full)
  \/ \E state \in CallStates : DeleteCall(state)
  \/ \E answer \in {ConfirmLabel, Undefined} : Answered(answer)
  \/ ToolThrows
  \/ RebuildReturned
  \/ DeleteReturned
  \/ \E r \in GetCodespaceResults, d \in GetCodespaceMs : ChangeFetched(r, d)
  \/ ChangeSlept

SpecConfirm == InitNoFile /\ [][ConfirmNext]_vars

\* A direct call of waitForState, with the owner of its token, the tool and the
\* remote side as the environment.
CancelNext ==
  \/ \E targetState \in {"Available", "Shutdown"}, given \in BOOLEAN,
        requested \in BOOLEAN :
       WaitForStateCall(targetState, given, requested)
  \/ CancellationRequested
  \/ ToolThrows
  \/ \E r \in GetCodespaceResults, d \in GetCodespaceMs : WaitFetched(r, d)
  \/ WaitSlept

SpecCancel == InitNoFile /\ [][CancelNext]_vars

\* Runs of the three operations that issue a command and poll-wait: start, stop
\* and ensureCodespaceAvailable.
SpecCommands == InitNoFile /\ [][WaitNext \/ LifecycleNext]_vars

\* Runs of every operation of the orchestrator, with fairness for the tool
\* invocations and the sleeps: each returns, throws or elapses.
OperationCalls ==
  \/ EnsureCall
  \/ \E state \in CallStates : StartCall(state)
  \/ \E state \in CallStates : StopCall(state)
  \/ \E state \in CallStates, full \in BOOLEAN : RebuildCall(state, full)
  \/ \E state \in CallStates : DeleteCall(state)
  \/ \E answer \in {ConfirmLabel, Undefined} : Answered(answer)
  \/ \E targetState \in {"Available", "Shutdown"}, given \in BOOLEAN,
        requested \in BOOLEAN :
       WaitForStateCall(targetState, given, requested)
  \/ CancellationRequested

ToolReturns ==
  \/ \E r \in GetCodespaceResults : EnsureFetched(r)
  \/ ToolThrows
  \/ StartReturned
  \/ StopReturned
  \/ RebuildReturned
  \/ DeleteReturned
  \/ \E r \in GetCodespaceResults, d \in FetchMs : ChangeFetched(r, d)
  \/ ChangeSlept
  \/ \E r \in GetCodespaceResults, d \in FetchMs : WaitFetched(r, d)
  \/ WaitSlept

TerminateNext == OperationCalls \/ ToolReturns

SpecTerminate == InitNoFile /\ [][TerminateNext]_vars /\ WF_vars(ToolReturns)

\* A connect, with the tool, the remote side and the editor as the environment.
ConnectNext ==
  \/ \E repository \in Repositories, retries \in ProbeRetries :
       ConnectCall(repository, retries)
  \/ \E r \in GetCodespaceResults : EnsureFetched(r)
  \/ ToolThrows
  \/ StartReturned
  \/ \E r \in GetCodespaceResults, d \in GetCodespaceMs : ChangeFetched(r, d)
  \/ ChangeSlept
  \/ \E r \in GetCodespaceResults, d \in GetCodespaceMs : WaitFetched(r, d)
  \/ WaitSlept
  \/ EnsureReturned
  \/ \E configOutput \in SshConfigOutputs, identityFileExists \in BOOLEAN :
       SshConfigReturned(configOutput, identityFileExists)
  \/ SshConfigThrows
  \/ KeysReturned
  \/ ProbeReady
  \/ ProbeNotReady
  \/ ProbeSlept
  \/ HostsRefreshed
  \/ \E ok \in BOOLEAN : FolderOpened(ok)

SpecConnect == InitNoFile /\ [][ConnectNext]_vars

\* The engine under its callers, its timers and the completions of its reloads.
SyncNext ==
  \/ Refresh
  \/ \E visible \in BOOLEAN : SetVisible(visible)
  \/ PollTick
  \/ BackgroundTick
  \/ ConfigChanged
  \/ \E r \in Slots, res \in PrereqResults : PrereqDone(r, res)
  \/ \E r \in Slots, listing \in Listings : ListDone(r, listing)
  \/ \E r \in Slots : ReloadThrows(r)
  \/ \E r \in Slots, n \in Names, idleInfo \in BOOLEAN, machineInfo \in BOOLEAN :
       EnrichSettled(r, n, idleInfo, machineInfo)

SpecSync == InitNoFile /\ [][SyncNext]_vars

\* The listings of a remote side that holds one workspace at most besides
\* the one whose name is rejected.
FewListings == {l \in Listings : \A n \in Names \ {BadName, 1} : l[n] = NotListed}

\* The engine with fairness for the steps of each reload: every tool
\* invocation it awaits returns or throws.
ReloadSteps(r) ==
  \/ \E res \in PrereqResults : PrereqDone(r, res)
  \/ \E listing \in FewListings : ListDone(r, listing)
  \/ ReloadThrows(r)
  \/ \E n \in Names, idleInfo \in BOOLEAN, machineInfo \in BOOLEAN :
       EnrichSettled(r, n, idleInfo, machineInfo)

ReloadNext ==
  \/ Refresh
  \/ \E visible \in BOOLEAN : SetVisible(visible)
  \/ PollTick
  \/ BackgroundTick
  \/ ConfigChanged
  \/ \E r \in Slots : ReloadSteps(r)

SpecReload ==
  /\ InitNoFile /\ [][ReloadNext]_vars
  /\ \A r \in Slots : WF_vars(ReloadSteps(r))

\* The engine up to and after dispose(): once the provider is disposed no
\* method of it is called, the ticks of intervals that are live and the
\* activations in flight go on.

DisposeNext ==
  \/ ~providerDisposed /\ Refresh
  \/ ~providerDisposed /\ \E visible \in BOOLEAN : SetVisible(visible)
  \/ ~providerDisposed /\ ConfigChanged
  \/ DisposeProvider
  \/ PollTick
  \/ BackgroundTick
  \/ \E r \in Slots, res \in PrereqResults : PrereqDone(r, res)
  \/ \E r \in Slots, listing \in FewListings : ListDone(r, listing)
  \/ \E r \in Slots : ReloadThrows(r)
  \/ \E r \in Slots, n \in Names, idleInfo \in BOOLEAN, machineInfo \in BOOLEAN :
       EnrichSettled(r, n, idleInfo, machineInfo)

SpecDispose == InitNoFile /\ [][DisposeNext]_vars

\* The engine and the remote side, every tool invocation succeeding.  The
\* timers tick as long as they are armed and every awaited invocation returns:
\* the ticks and the steps of the reloads are fair.
LiveNext ==
  \/ Refresh
  \/ \E visible \in BOOLEAN : SetVisible(visible)
  \/ PollTick
  \/ BackgroundTick
  \/ \E r \in Slots : PrereqReady(r)
  \/ \E r \in Slots : Listed(r)
  \/ \E r \in Slots : EnrichSucceeds(r)
  \/ \E listing \in RemoteListings : RemoteChanges(listing)
  \/ RemoteFreezes

SpecLive ==
  /\ InitNoFile /\ [][LiveNext]_vars
  /\ WF_vars(PollTick) /\ WF_vars(BackgroundTick)
  /\ \A r \in Slots :
       WF_vars(PrereqReady(r)) /\ WF_vars(Listed(r)) /\ WF_vars(EnrichSucceeds(r))

\* parseSshConfigOutput and formatSshConfigEntry applied to texts and entries.
ParseNext ==
  \/ psIn = <<>> /\ \E configOutput \in ConfigOutputs : ParseCall(configOutput)
  \/ \E i \in 1..MaxLines : FormatAndParse(i)

SpecParse == InitNoFile /\ [][ParseNext]_vars

\* One call of an operation of the Directory Client.
ClientNext ==
  /\ client.op = "none"
  /\ \E op \in ClientOps, name \in Names, exec \in ExecEnds, stdout \in Stdouts :
       ClientCall(op, name, exec, stdout)

SpecClient == InitNoFile /\ [][ClientNext]_vars

\* The health monitor under its interval, its probes and the user.
HealthNext ==
  \/ MonitorStart
  \/ ProbeTick
  \/ ProbeSucceeds
  \/ ProbeFails
  \/ Reconnect
  \/ \E selection \in {"disconnect", "dismiss"} : PromptClosed(selection)
  \/ Dispose

SpecHealth == InitNoFile /\ [][HealthNext]_vars

\* findStaleCodespaces applied to arrays of workspaces.
StaleNext ==
  /\ ~staleCall.done
  /\ \E now \in Nows : \E cs \in StaleInputs(now), thresholdDays \in 0..MaxDays :
       FindStale(Named(cs), thresholdDays, now)

SpecStale == InitNoFile /\ [][StaleNext]_vars

\* getChildren() applied to caches and filters.
ViewNext ==
  /\ ~viewCall.done
  /\ \E connected \in BOOLEAN :
       \E cs \in CachesOf(connected), filterState \in FilterStates,
          filterText \in FilterTexts :
         GetChildren(Cached(cs), filterState, filterText, connected)

SpecView == InitNoFile /\ [][ViewNext]_vars

Next ==
  \/ SshNext \/ WaitNext \/ LifecycleNext \/ ConfirmNext \/ CancelNext
  \/ TerminateNext \/ ConnectNext \/ SyncNext \/ LiveNext \/ ParseNext
  \/ HealthNext \/ StaleNext \/ ViewNext \/ ClientNext \/ DisposeNext \/ ReloadNext

Spec == Init /\ [][Next]_vars

=============================================================================
